---- MODULE Spec2Model ----
(***************************************************************************)
(* A state-machine model of the TLS intercepting proxy:                    *)
(*   - the proxy front-end (make_service! in third_wheel/proxy.rs),        *)
(*   - the tunnel orchestrator (run_mitm_on_connection),                   *)
(*   - the request synchronizer and the ThirdWheel service                 *)
(*     (third_wheel/proxy/mitm.rs),                                        *)
(*   - the blocking policy closure and the HAR receiver task (main.rs).    *)
(***************************************************************************)
EXTENDS Integers, Sequences, FiniteSets, TLC

\* ------------------------------------------------------------- bounds
\* Client requests served on the tunnel explored in depth by Spec.
MaxReq == 3
\* Client requests served on the tunnel explored by FairSpec.
FairMaxReq == 2
\* Concurrent client connections explored by MultiSpec.
NumConns == 2
\* Client requests, over all tunnels together, explored by MultiSpec.
MultiMaxReq == 1

\* Client requests served on the second tunnel explored by StallSpec.
StallMaxReq == 2
\* Client requests served on each of the two tunnels explored by TargetSpec.
TargetMaxReq == 1
\* Client requests served on the tunnel explored by BlockSpec.
BlockMaxReq == 2

\* Blocked requests served on the tunnel explored by HarSpec: one more than
\* the sink queue holds.
HarMaxReq == 101
\* Headers of a request given to copy_from_http_request_to_har.
MaxHeaders == 2

\* ---------------------------------------------------- program constants
\* mpsc::channel(100): capacity of the HAR sink queue.
HarCapacity == 100
\* mpsc::channel(10): capacity of the channel feeding a synthesized body.
SseCapacity == 10

Conns == 1..NumConns

\* ------------------------------------------------------------ requests
\* An http::Uri: scheme and authority present or not, and the raw
\* path-and-query data split into path and query ("" when absent).
MkUri(s, a, p, q) == [scheme |-> s, authority |-> a, path |-> p, query |-> q]

NoPath == [none |-> TRUE]

\* The paths of the model that start with "/".
SlashPaths == {"/", "/a", "/b", "/backend-api/conversation"}

\* Uri::path_and_query followed by PathAndQuery::as_str: None for an
\* authority-form URI; the raw data otherwise, "/" when the data is empty.
PathAndQuery(u) ==
    IF u.scheme \/ ~u.authority
      THEN IF u.path = "" /\ u.query = ""
             THEN [path |-> "/", query |-> ""]
             ELSE [path |-> u.path, query |-> u.query]
      ELSE NoPath

\* str::parse::<Uri> of a path-and-query string: a string that starts with
\* "/" (or is "*") parses to a URI with neither scheme nor authority; any
\* other string without a scheme is rejected.
ParsePath(pq) ==
    IF pq.path \in SlashPaths \/ (pq.path = "*" /\ pq.query = "")
      THEN [ok |-> TRUE, uri |-> MkUri(FALSE, FALSE, pq.path, pq.query)]
      ELSE [ok |-> FALSE, uri |-> MkUri(FALSE, FALSE, "", "")]

\* Uri::path: "" without a path, "/" for an empty path of an absolute URI.
UriPath(u) ==
    IF u.path = "" /\ u.query = "" /\ ~u.scheme THEN ""
    ELSE IF u.path = "" THEN "/"
    ELSE u.path

\* ------------------------------------------------------- request bodies
\* A serde_json::Value as far as the program looks at it: its type and its
\* compact serialization (a string's v is the string itself).
JsonString(s) == [t |-> "string", v |-> s]
JsonNumber(n) == [t |-> "number", v |-> n]
JsonObject(text) == [t |-> "object", v |-> text]
JsonNull == [t |-> "null", v |-> "null"]
\* No value at a path of a document.
JsonAbsent == [t |-> "absent", v |-> ""]

\* Display of a serde_json::Value (to_string and "{}"): the compact
\* serialization; a string is written with its surrounding double quotes.
JsonToString(j) == IF j.t = "string" THEN "\"" \o j.v \o "\"" ELSE j.v

\* The bytes of a request body, by what the program can see of them:
\*   root      "invalid_utf8", "empty" (no bytes), "not_json", or the type of
\*             the JSON document: "array" or "object";
\*   conv      the object has a conversation_id key;
\*   messages  the value at the messages key: "absent", "null",
\*             "empty_array" or "array" (an array with a first element);
\*   id        messages[0] is an object with an id key;
\*   content   messages[0].content: "absent", "no_parts" (an object
\*             without a parts key) or "parts";
\*   part0     the value of messages[0].content.parts[0], JsonAbsent when
\*             parts is empty.
MkBody(root, conv, messages, id, content, part0) ==
    [root |-> root, conv |-> conv, messages |-> messages, id |-> id,
     content |-> content, part0 |-> part0]

\* A body without a JSON object in it.
Opaque(root) == MkBody(root, FALSE, "absent", FALSE, "absent", JsonAbsent)

\* The values the model puts at messages[0].content.parts[0].
Part0s == {JsonAbsent, JsonString("this is confidential"),
           JsonString("hello"), JsonNumber("42")}

\* The request bodies of the model.
Bodies ==
    {Opaque(root) : root \in {"invalid_utf8", "empty", "not_json", "array"}}
    \cup {MkBody("object", conv, m, FALSE, "absent", JsonAbsent) :
            conv \in BOOLEAN, m \in {"absent", "null", "empty_array"}}
    \cup {MkBody("object", conv, "array", id, content, JsonAbsent) :
            conv \in BOOLEAN, id \in BOOLEAN,
            content \in {"absent", "no_parts"}}
    \cup {MkBody("object", conv, "array", id, "parts", part0) :
            conv \in BOOLEAN, id \in BOOLEAN, part0 \in Part0s}

EmptyBody == Opaque("empty")
\* {"messages":[{"id":..,"content":{"parts":["this is confidential"]}}]}
ConfidentialBody ==
    MkBody("object", FALSE, "array", TRUE, "parts",
           JsonString("this is confidential"))
\* {"messages":[{"id":..,"content":{"parts":["hello"]}}]}
CleanBody ==
    MkBody("object", FALSE, "array", TRUE, "parts", JsonString("hello"))

\* A client request inside a tunnel: method, URI, header names, the value of
\* the Host header (meaningful only when "host" is among the headers) and
\* its body.
MkReq(m, u, hs, h, b) ==
    [method |-> m, uri |-> u, hdrs |-> hs, host |-> h, body |-> b]

\* The headers RFC 7230 calls hop-by-hop, and the proxy-connection header.
HopByHop == {"connection", "keep-alive", "proxy-authenticate",
             "proxy-authorization", "te", "trailer", "transfer-encoding",
             "upgrade", "proxy-connection"}

GetOrigin ==
    MkReq("GET", MkUri(FALSE, FALSE, "/a", ""), {"host"}, "example.com", EmptyBody)
GetAbsolute ==
    MkReq("GET", MkUri(TRUE, TRUE, "/b", "q"),
          {"host", "proxy-connection", "connection", "accept"},
          "example.com", EmptyBody)
PostConfidential ==
    MkReq("POST", MkUri(FALSE, FALSE, "/backend-api/conversation", ""),
          {"host", "content-type", "proxy-connection"}, "chatgpt.com",
          ConfidentialBody)
PostClean ==
    MkReq("POST", MkUri(FALSE, FALSE, "/backend-api/conversation", ""),
          {"host", "content-type", "te"}, "chatgpt.com", CleanBody)
\* {"messages":[{"content":{"parts":["this is confidential"]}}]}: the
\* first message has no id.
PostConfidentialNoId ==
    MkReq("POST", MkUri(FALSE, FALSE, "/backend-api/conversation", ""),
          {"host", "content-type"}, "chatgpt.com",
          MkBody("object", FALSE, "array", FALSE, "parts",
                 JsonString("this is confidential")))
\* The confidential prompt, with a Host header that names the port.
PostConfidentialOtherHost ==
    MkReq("POST", MkUri(FALSE, FALSE, "/backend-api/conversation", ""),
          {"host", "content-type"}, "chatgpt.com:443", ConfidentialBody)
AuthorityForm ==
    MkReq("GET", MkUri(FALSE, TRUE, "", ""), {"host"}, "example.com", EmptyBody)
QueryOnly ==
    MkReq("GET", MkUri(TRUE, TRUE, "", "q"), {"host"}, "example.com", EmptyBody)
NoHostHeader ==
    MkReq("GET", MkUri(FALSE, FALSE, "/a", ""), {"accept"}, "", EmptyBody)

\* The requests a client of the tunnel explored by Spec may send.
ReqKinds == {GetOrigin, GetAbsolute, PostConfidential, PostClean,
             AuthorityForm, QueryOnly, NoHostHeader}
\* The requests a client of a tunnel explored by MultiSpec may send.
MultiKinds == {GetOrigin, PostConfidential}
\* The requests the client of the second tunnel explored by StallSpec may
\* send.
StallKinds == {GetOrigin, PostConfidential}
\* The requests a client of a tunnel explored by TargetSpec may send.
TargetKinds == {PostConfidential, PostConfidentialOtherHost}
\* The requests a client of the tunnel explored by BlockSpec may send.
BlockKinds == {PostConfidential, PostConfidentialNoId, PostClean}

\* ------------------------------------------------------------ front-end
\* A request on the plain (not yet upgraded) client connection.
FrontReqs == [method : {"CONNECT", "GET"}, host : BOOLEAN, port : BOOLEAN]

\* Mutant of TargetHostPort: the port is not looked up.
TargetHostOnly(freq) ==
    IF ~freq.host THEN [ok |-> FALSE, err |-> "No host found on CONNECT request"]
    ELSE [ok |-> TRUE, err |-> ""]

\* target_host_port_from_connect: the host is looked up first, then the port.
TargetHostPort(freq) ==
    IF ~freq.host THEN [ok |-> FALSE, err |-> "No host found on CONNECT request"]
    ELSE IF ~freq.port THEN [ok |-> FALSE, err |-> "No port found on CONNECT request"]
    ELSE [ok |-> TRUE, err |-> ""]

\* No request was answered on the plain connection yet.
NoFrontReq == [method |-> "none", host |-> FALSE, port |-> FALSE]

\* target_host_port_from_connect: the host named by the CONNECT request of
\* connection c, to which the tunnel connects. The client of the first
\* connection asks for chatgpt.com, the others for example.com.
TargetHost(c) ==
    IF \A d \in Conns : c <= d THEN "chatgpt.com" ELSE "example.com"

\* conn.remote_addr(): every client connection has its own peer address.
PeerAddr(c) == <<"peer", c>>
NoAddr == <<"peer", 0>>

VARIABLES
    listening,   \* the listening socket is bound and serving
    conn,        \* conn[c]: the plain client connection c at the front-end
    tunnel,      \* tunnel[c]: run_mitm_on_connection's progress for c
    upstream,    \* upstream[c]: the upstream session (TLS stream and sender)
    thirdWheel,  \* thirdWheel[c]: the tunnel's ThirdWheel service
    queue,       \* queue[c]: the synchronizer's unbounded input queue
    sync,        \* sync[c]: the RequestSendingSynchronizer task
    sent,        \* sent[c]: the requests submitted to the upstream sender
    reqs,        \* reqs[c]: the client requests of tunnel c, policy state
    harQueue,    \* the bounded HAR sink queue
    harEntries,  \* the receiver task's entries vector
    harFile,     \* the writes made to the output file, in order
    harReceiver, \* the receiving half of the sink queue: "open" or "dropped"
    main,        \* the main function of the process: position and exit status
    util         \* a call of one of the functions of utilities.rs under test

vars == <<listening, conn, tunnel, upstream, thirdWheel, queue, sync, sent,
          reqs, harQueue, harEntries, harFile, harReceiver, main, util>>

tunnelVars == <<tunnel, upstream, thirdWheel, queue, sync, sent, reqs>>
harVars == <<harQueue, harEntries, harFile, harReceiver>>
\* The variables outside the proxy proper.
envVars == <<main, util>>

\* An X.509 certificate: subject, Subject Alternative Names, validity
\* window and issuer.
NoCert ==
    [subject |-> <<"none", 0>>, sans |-> {}, not_before |-> 0, not_after |-> 0,
     issuer |-> "none"]

\* No leaf certificate was captured.
NoLeaf == <<"none", 0>>

\* The CA that main loaded and handed to the proxy.
ConfiguredCa == [name |-> "proxy-ca", not_before |-> 2, not_after |-> 4]

\* The leaf certificate the target of connection c presents: it names the
\* requested host; the targets differ in their validity windows, and a
\* window may begin before or end after the CA's.
TargetCert(c) ==
    [subject |-> <<"leaf", c>>, sans |-> {<<"host", c>>, <<"alt", c>>},
     not_before |-> 3 - c, not_after |-> 2 + c, issuer |-> "origin-ca"]

\* The certificate behind a captured leaf; no certificate while none has been
\* captured.
LeafCert(leaf) == IF leaf = NoLeaf THEN NoCert ELSE TargetCert(leaf[2])

\* spoof_certificate(&target_certificate, &ca): the upstream leaf's subject
\* and Subject Alternative Names are copied, the validity window is the
\* upstream's, and the CA signs.
SpoofCertificate(cert, ca) == [cert EXCEPT !.issuer = ca.name]

NoTunnel ==
    [stage |-> "NONE", cause |-> "none", upstreamTls |-> FALSE,
     clientTls |-> FALSE, leaf |-> NoLeaf, presented |-> NoCert]
\* No upstream session yet: its state, the requests whose response is
\* outstanding on it, the upstream connections the tunnel task has opened so
\* far, the connections (by their number) requests were submitted on, and
\* whether the connection driver task was spawned for it.
NoUpstream ==
    [st |-> "none", outstanding |-> {}, opened |-> 0, used |-> {},
     driver |-> FALSE]
NoThirdWheel == [alive |-> FALSE, client_ip |-> NoAddr]
NoSync == [pc |-> "none", cur |-> 0, fut |-> "none", resp |-> 0]
\* What main finds when it starts: the certificate file and the key file
\* named on the command line ("ok", "missing", and for the key file
\* "other_passphrase" when its passphrase is not the one main passes),
\* whether the port can be bound and whether the output file can be created.
Envs ==
    [cert_file : {"ok", "missing"},
     key_file : {"ok", "missing", "other_passphrase"},
     port_free : BOOLEAN, outfile : BOOLEAN]
GoodEnv ==
    [cert_file |-> "ok", key_file |-> "ok", port_free |-> TRUE,
     outfile |-> TRUE]

\* main at its start, in environment env; exit is the exit status once pc is
\* "exited".
Starting(env) == [pc |-> "load_ca", exit |-> 0, env |-> env]
\* main after its set-up: the proxy task and the receiver task are spawned
\* and main waits in join!.
Serving == [pc |-> "join", exit |-> 0, env |-> GoodEnv]
\* No function of utilities.rs is under test.
NoCall == [fn |-> "none"]

\* No client connection yet, and nothing in the HAR sink.
NoConnections ==
    /\ conn = [c \in Conns |->
                 [st |-> "idle", ip |-> NoAddr, status |-> 0, req |-> NoFrontReq]]
    /\ tunnel = [c \in Conns |-> NoTunnel]
    /\ upstream = [c \in Conns |-> NoUpstream]
    /\ thirdWheel = [c \in Conns |-> NoThirdWheel]
    /\ queue = [c \in Conns |-> <<>>]
    /\ sync = [c \in Conns |-> NoSync]
    /\ sent = [c \in Conns |-> <<>>]
    /\ reqs = [c \in Conns |-> <<>>]
    /\ harQueue = <<>>
    /\ harEntries = <<>>
    /\ harFile = <<>>
    /\ harReceiver = "open"

\* The proxy listening, with no client connection yet.
ProxyIdle == listening = TRUE /\ NoConnections

Init ==
    /\ ProxyIdle
    /\ main = Serving
    /\ util = NoCall

\* ------------------------------------------------------------- main
\* CertificateAuthority::load_from_pem_files_with_passphrase_on_key: it
\* fails when a file is missing or the passphrase does not open the key.
LoadFromPemFiles(env) == env.cert_file = "ok" /\ env.key_file = "ok"

\* Mutant of MainLoadCa: a failed load does not end main.
MainLoadCaUnchecked ==
    /\ main.pc = "load_ca"
    /\ main' = [main EXCEPT !.pc = "bind"]
    /\ UNCHANGED <<listening, conn, tunnelVars, harVars, util>>

\* The first statement of main: the CA is loaded, and `?` returns the error
\* from main when the load fails, which ends the process with status 1.
MainLoadCa ==
    /\ main.pc = "load_ca"
    /\ main' = IF LoadFromPemFiles(main.env)
                 THEN [main EXCEPT !.pc = "bind"]
                 ELSE [main EXCEPT !.pc = "exited", !.exit = 1]
    /\ UNCHANGED <<listening, conn, tunnelVars, harVars, util>>

\* The sink channel and the policy are built, then mitm_proxy.bind(addr):
\* Server::bind panics when the port cannot be bound (the process ends with
\* status 101); otherwise the socket listens and the proxy task is spawned.
MainBind ==
    /\ main.pc = "bind"
    /\ IF main.env.port_free
         THEN /\ listening' = TRUE
              /\ main' = [main EXCEPT !.pc = "create_file"]
         ELSE /\ main' = [main EXCEPT !.pc = "exited", !.exit = 101]
              /\ UNCHANGED listening
    /\ UNCHANGED <<conn, tunnelVars, harVars, util>>

\* File::create(&args.outfile).unwrap(): a panic of main ends the process,
\* and with it the listening socket; otherwise the receiver task is spawned
\* and main waits for both tasks.
MainCreateFile ==
    /\ main.pc = "create_file"
    /\ IF main.env.outfile
         THEN /\ main' = [main EXCEPT !.pc = "join"]
              /\ UNCHANGED listening
         ELSE /\ main' = [main EXCEPT !.pc = "exited", !.exit = 101]
              /\ listening' = FALSE
    /\ UNCHANGED <<conn, tunnelVars, harVars, util>>

\* The future that MitmProxy::bind returned (the listening task) is dropped:
\* the listening socket goes with it. The tasks spawned for the connections
\* accepted so far are detached, and nothing here reaches them.
ListenerDropped ==
    /\ main.pc = "join"
    /\ listening
    /\ listening' = FALSE
    /\ UNCHANGED <<conn, tunnelVars, harVars, envVars>>

\* make_service_fn: a client connection is accepted and its peer address
\* captured.
Accept(c) ==
    /\ listening
    /\ conn[c].st = "idle"
    /\ conn' = [conn EXCEPT ![c] = [st |-> "open", ip |-> PeerAddr(c),
                                    status |-> 0, req |-> NoFrontReq]]
    /\ UNCHANGED <<envVars, listening, tunnelVars, harVars>>

\* The task spawned for a CONNECT with host and port; it first awaits the
\* upgrade of the connection.
SpawnedTunnel == [NoTunnel EXCEPT !.stage = "UPGRADING"]

\* service_fn: the answer to one request on the plain connection. A CONNECT
\* with host and port spawns the tunnel task and answers 200; anything else
\* answers 400.
ServeRequest(c, freq) ==
    /\ conn[c].st = "open"
    /\ IF freq.method = "CONNECT" /\ TargetHostPort(freq).ok
         THEN /\ conn' = [conn EXCEPT ![c].status = 200, ![c].st = "upgraded",
                                      ![c].req = freq]
              /\ tunnel' = [tunnel EXCEPT ![c] = SpawnedTunnel]
         ELSE /\ conn' = [conn EXCEPT ![c].status = 400, ![c].req = freq]
              /\ UNCHANGED tunnel
    /\ UNCHANGED <<envVars, listening, upstream, thirdWheel, queue, sync, sent, reqs, harVars>>

\* ---------------------------------------------------- tunnel orchestrator
\* Mutants of Closed: the error is recorded but the task goes on; the task
\* starts over with a new upstream connection.
ClosedKeepsRunning(t, cause) == [t EXCEPT !.cause = cause]
ClosedReconnects(t, cause) == [t EXCEPT !.stage = "INIT", !.cause = cause]

\* The tunnel task ends (run_mitm_on_connection returns or the task panics)
\* and drops the client socket: the stage becomes CLOSED, the cause is kept.
Closed(t, cause) == [t EXCEPT !.stage = "CLOSED", !.cause = cause]

\* hyper::upgrade::on(&mut req).await in the spawned task: Ok(upgraded)
\* starts run_mitm_on_connection, Err is logged and the task ends.
Upgrade(c, ok) ==
    /\ tunnel[c].stage = "UPGRADING"
    /\ tunnel' = [tunnel EXCEPT ![c] =
                    IF ok THEN [@ EXCEPT !.stage = "INIT"] ELSE Closed(@, "upgrade")]
    /\ UNCHANGED <<envVars, listening, conn, upstream, thirdWheel, queue, sync, sent, reqs, harVars>>

\* The tunnel after connect_to_target_with_tls returned the stream and the
\* peer's leaf certificate.
UpstreamReady(t, c) ==
    [t EXCEPT !.stage = "UPSTREAM_READY", !.upstreamTls = TRUE, !.leaf = <<"leaf", c>>]

\* connect_to_target_with_tls(...).await?: TCP connect, TLS connect and the
\* peer certificate; any failure returns from run_mitm_on_connection.
ConnectUpstream(c, ok) ==
    /\ tunnel[c].stage = "INIT"
    /\ IF ok
         THEN /\ tunnel' = [tunnel EXCEPT ![c] = UpstreamReady(@, c)]
              /\ upstream' = [upstream EXCEPT ![c].st = "open",
                                              ![c].opened = @ + 1]
         ELSE /\ tunnel' = [tunnel EXCEPT ![c] = Closed(@, "upstream")]
              /\ UNCHANGED upstream
    /\ UNCHANGED <<envVars, listening, conn, thirdWheel, queue, sync, sent, reqs, harVars>>

\* The tunnel after client.accept(upgraded) succeeded: the client was
\* presented the certificate spoofed from the leaf this tunnel captured.
ClientTlsUp(t) ==
    [t EXCEPT !.stage = "CLIENT_TLS_UP", !.clientTls = TRUE,
              !.presented = SpoofCertificate(LeafCert(t.leaf), ConfiguredCa)]

\* Mutant of AcceptStage: client TLS is accepted before the upstream connect.
AcceptStageInit == "INIT"

\* The stage at which client TLS is accepted.
AcceptStage == "UPSTREAM_READY"

\* spoof_certificate, native_identity, TlsAcceptor::new and
\* client.accept(upgraded).await?: res is "ok" or the step that failed. On
\* failure the function returns and drops the upstream stream.
AcceptClientTls(c, res) ==
    /\ tunnel[c].stage = AcceptStage
    /\ IF res = "ok"
         THEN /\ tunnel' = [tunnel EXCEPT ![c] = ClientTlsUp(@)]
              /\ UNCHANGED upstream
         ELSE /\ tunnel' = [tunnel EXCEPT ![c] = Closed(@, res)]
              /\ upstream' = [upstream EXCEPT ![c].st =
                                IF @ = "open" THEN "released" ELSE @]
    /\ UNCHANGED <<envVars, listening, conn, thirdWheel, queue, sync, sent, reqs, harVars>>

\* The synchronizer task right after tokio::spawn: waiting in recv().
SpawnedSync == [pc |-> "recv", cur |-> 0, fut |-> "none", resp |-> 0]

\* Mutant of NewThirdWheel: the address is the one of the connection the
\* proxy accepted first.
NewThirdWheelFirstPeer(c) ==
    [alive |-> TRUE,
     client_ip |-> conn[CHOOSE d \in Conns : \A e \in Conns : d <= e].ip]

\* ThirdWheel::new(sender, client_ip): client_ip is the address the
\* make_service closure captured when it accepted connection c, moved into
\* the tunnel task.
NewThirdWheel(c) == [alive |-> TRUE, client_ip |-> conn[c].ip]

\* Mutant of UpstreamHandshake: the connection driver and the synchronizer
\* are spawned before the handshake's result is looked at, and a failed
\* handshake leaves them running with the upstream stream.
UpstreamHandshakeSpawnsFirst(c, ok) ==
    /\ tunnel[c].stage = "CLIENT_TLS_UP"
    /\ IF ok
         THEN /\ tunnel' = [tunnel EXCEPT ![c].stage = "BRIDGED"]
              /\ sync' = [sync EXCEPT ![c] = SpawnedSync]
              /\ queue' = [queue EXCEPT ![c] = <<>>]
              /\ thirdWheel' = [thirdWheel EXCEPT ![c] = NewThirdWheel(c)]
              /\ upstream' = [upstream EXCEPT ![c].driver = TRUE]
         ELSE /\ tunnel' = [tunnel EXCEPT ![c] = Closed(@, "handshake")]
              /\ upstream' = [upstream EXCEPT ![c].driver = TRUE]
              /\ sync' = [sync EXCEPT ![c] = SpawnedSync]
              /\ queue' = [queue EXCEPT ![c] = <<>>]
              /\ UNCHANGED thirdWheel
    /\ UNCHANGED <<envVars, listening, conn, sent, reqs, harVars>>

\* Builder::new().handshake(target_stream).await?, then (without another
\* suspension) the connection driver and the synchronizer are spawned over a
\* fresh unbounded channel, the ThirdWheel is built with the client's address
\* and the HTTP/1.1 server starts serving the client stream.
UpstreamHandshake(c, ok) ==
    /\ tunnel[c].stage = "CLIENT_TLS_UP"
    /\ IF ok
         THEN /\ tunnel' = [tunnel EXCEPT ![c].stage = "BRIDGED"]
              /\ sync' = [sync EXCEPT ![c] = SpawnedSync]
              /\ queue' = [queue EXCEPT ![c] = <<>>]
              /\ thirdWheel' = [thirdWheel EXCEPT ![c] = NewThirdWheel(c)]
              /\ upstream' = [upstream EXCEPT ![c].driver = TRUE]
         ELSE /\ tunnel' = [tunnel EXCEPT ![c] = Closed(@, "handshake")]
              /\ upstream' = [upstream EXCEPT ![c].st = "released"]
              /\ UNCHANGED <<sync, queue, thirdWheel>>
    /\ UNCHANGED <<envVars, listening, conn, sent, reqs, harVars>>

\* ------------------------------------------------ policy and ThirdWheel
\* convert_body_to_json: bytes that are not UTF-8 become the empty string,
\* and text that does not parse as JSON becomes Value::Null.
ConvertBodyToJson(body) ==
    IF body.root \in {"invalid_utf8", "empty", "not_json"}
      THEN Opaque("null") ELSE body

\* Value::get_mut("messages").is_some(): the document is an object with a
\* messages key.
HasMessages(json) == json.root = "object" /\ json.messages # "absent"

\* What a call yields: a returned text, or a panic.
Returned(text) == [panic |-> FALSE, text |-> text]
Panicked == [panic |-> TRUE, text |-> ""]

\* parse_request: without a messages key the empty string; with one,
\* message[0] panics unless messages is an array with a first element, the
\* unwraps panic unless messages[0] has a content with a parts key, and
\* parts[0] (Value::Null when parts has no first element) is serialized.
ParseRequest(body) ==
    LET json == ConvertBodyToJson(body) IN
    IF ~HasMessages(json) THEN Returned("")
    ELSE IF json.messages # "array" THEN Panicked
    ELSE IF json.content # "parts" THEN Panicked
    ELSE Returned(JsonToString(IF json.part0 = JsonAbsent THEN JsonNull
                           ELSE json.part0))

\* str::contains("confidential") on the prompts of the model.
ContainsConfidential(prompt) == prompt = "\"this is confidential\""

\* Mutants of Blocked: the method is compared with "post"; the prompt is not
\* searched for the keyword.
BlockedAnyPrompt(r) ==
    /\ r.host = "chatgpt.com"
    /\ UriPath(r.uri) = "/backend-api/conversation"
    /\ r.method = "POST"

BlockedLowercaseMethod(r) ==
    /\ r.host = "chatgpt.com"
    /\ UriPath(r.uri) = "/backend-api/conversation"
    /\ r.method = "post"
    /\ ContainsConfidential(ParseRequest(r.body).text)

\* The policy's block condition: Host, path and method select the chat
\* endpoint, then the parsed prompt is searched for the keyword.
Blocked(r) ==
    /\ r.host = "chatgpt.com"
    /\ UriPath(r.uri) = "/backend-api/conversation"
    /\ r.method = "POST"
    /\ ContainsConfidential(ParseRequest(r.body).text)

\* The policy calls parse_request on the body of a POST to the chat
\* endpoint, and the call panics.
ParsePanics(r) ==
    /\ r.host = "chatgpt.com"
    /\ UriPath(r.uri) = "/backend-api/conversation"
    /\ r.method = "POST"
    /\ ParseRequest(r.body).panic

\* The three messages of the synthesized answer (the fields of each object
\* other than its discriminating ones are elided as ..): the assistant's
\* message; the title of a new conversation, or the empty JSON string when
\* the request carries a conversation_id; the conversation's metadata.
Message1 == JsonObject("{\"conversation_id\":..,\"error\":null,\"message\":{..}}")
Message2(json) ==
    IF ~json.conv
      THEN JsonObject("{\"conversation_id\":..,\"title\":\"New chat\",\"type\":\"title_generation\"}")
      ELSE JsonString("")
Message3 == JsonObject("{..,\"type\":\"conversation_detail_metadata\"}")

\* format!("data: {}\n\n", message): the text of a chunk of the body, kept
\* with the type of the value it carries.
Chunk(j) == [text |-> "data: " \o JsonToString(j) \o "\n\n", payload |-> j.t]
DoneChunk == [text |-> "data: [DONE]\n\n", payload |-> "literal"]

\* The body log_blocked_request collects from create_response with
\* hyper::body::to_bytes: the three data chunks and the [DONE] chunk, or
\* nothing when the task feeding the stream panicked before its first send
\* (the body is not a JSON object whose messages[0] has an id).
SynthesizedBody(body) ==
    LET json == ConvertBodyToJson(body) IN
    IF HasMessages(json) /\ json.messages = "array" /\ json.id
      THEN <<Chunk(Message1), Chunk(Message2(json)), Chunk(Message3), DoneChunk>>
      ELSE <<>>

\* One client request of a tunnel: the request, where its policy future
\* stands, the value its reply channel received (and, for a response, the
\* number of the request whose response future gave it), how often the
\* synchronizer dequeued it and called send on its reply channel, how often
\* it logged that the requester was not available, and what the client got
\* (with the chunks of the body of a synthesized answer); resp is 0 for an
\* error the synchronizer made itself.
\* senderDropped: the sending half of the reply channel was dropped without
\* a value; call: what ThirdWheel::call yielded to the policy.
NewReq(r, pc) ==
    [req |-> r, pc |-> pc, reply |-> "none", resp |-> 0, deq |-> 0,
     sends |-> 0, logged |-> 0, status |-> "none", answer |-> <<>>,
     senderDropped |-> FALSE, call |-> "none"]

\* The server task of a tunnel ends (connection closed, serve error or a
\* panic of a policy future): every policy future still in flight is dropped
\* with it, and so is every clone of the ThirdWheel.
DropFutures(rs) ==
    [k \in DOMAIN rs |->
       IF rs[k].pc \in {"har", "wait"} THEN [rs[k] EXCEPT !.pc = "dropped"] ELSE rs[k]]

EndServer(c, cause, rs) ==
    /\ tunnel' = [tunnel EXCEPT ![c] = Closed(@, cause)]
    /\ thirdWheel' = [thirdWheel EXCEPT ![c].alive = FALSE]
    /\ reqs' = [reqs EXCEPT ![c] = DropFutures(rs)]

\* An entry of the synchronizer queue: the reply channel of request k of the
\* tunnel, and the request.
Pending(k, r) == [k |-> k, req |-> r]

\* Mutant of ReceiverGone: send does not notice that the receiver is gone.
SendIgnoresClosed(c) == FALSE

\* sender.send(...) of ThirdWheel::call fails: the receiving half of the
\* queue, owned by the synchronizer task, is gone with that task.
ReceiverGone(c) == sync[c].pc \in {"done", "aborted"}

\* Mutant of ClientRequest: the block condition looks at the host the
\* tunnel was opened to, not at the Host header.
ClientRequestByTarget(c, r) ==
    /\ tunnel[c].stage = "BRIDGED"
    /\ LET k == Len(reqs[c]) + 1 IN
       IF "host" \notin r.hdrs
         THEN /\ EndServer(c, "panic", Append(reqs[c], NewReq(r, "panic")))
              /\ UNCHANGED queue
       ELSE IF ParsePanics([r EXCEPT !.host = TargetHost(c)])
         THEN /\ EndServer(c, "panic", Append(reqs[c], NewReq(r, "panic")))
              /\ UNCHANGED queue
       ELSE IF Blocked([r EXCEPT !.host = TargetHost(c)])
         THEN /\ reqs' = [reqs EXCEPT ![c] = Append(@, NewReq(r, "har"))]
              /\ UNCHANGED <<tunnel, thirdWheel, queue>>
       ELSE IF ReceiverGone(c)
         THEN /\ EndServer(c, "panic",
                           Append(reqs[c], [NewReq(r, "panic") EXCEPT
                                              !.call = "ErrConnect"]))
              /\ UNCHANGED queue
       ELSE /\ reqs' = [reqs EXCEPT ![c] = Append(@, NewReq(r, "wait"))]
            /\ queue' = [queue EXCEPT ![c] = Append(@, Pending(k, r))]
            /\ UNCHANGED <<tunnel, thirdWheel>>
    /\ UNCHANGED <<envVars, listening, conn, upstream, sync, sent, harVars>>

\* The HTTP/1.1 server hands a client request to the policy closure, which
\* runs to its first suspension: a request without a Host header panics the
\* task, and so does a chat request whose body parse_request cannot walk; a
\* blocked request builds its HAR entry and waits to send it; any
\* other request is rebuilt and passed to ThirdWheel::call, which enqueues it
\* with a fresh reply channel (or fails when the queue's receiver is gone,
\* which the policy's unwrap turns into a panic).
ClientRequest(c, r) ==
    /\ tunnel[c].stage = "BRIDGED"
    /\ LET k == Len(reqs[c]) + 1 IN
       IF "host" \notin r.hdrs
         THEN /\ EndServer(c, "panic", Append(reqs[c], NewReq(r, "panic")))
              /\ UNCHANGED queue
       ELSE IF ParsePanics(r)
         THEN /\ EndServer(c, "panic", Append(reqs[c], NewReq(r, "panic")))
              /\ UNCHANGED queue
       ELSE IF Blocked(r)
         THEN /\ reqs' = [reqs EXCEPT ![c] = Append(@, NewReq(r, "har"))]
              /\ UNCHANGED <<tunnel, thirdWheel, queue>>
       ELSE IF ReceiverGone(c)
         THEN /\ EndServer(c, "panic",
                           Append(reqs[c], [NewReq(r, "panic") EXCEPT
                                              !.call = "ErrConnect"]))
              /\ UNCHANGED queue
       ELSE /\ reqs' = [reqs EXCEPT ![c] = Append(@, NewReq(r, "wait"))]
            /\ queue' = [queue EXCEPT ![c] = Append(@, Pending(k, r))]
            /\ UNCHANGED <<tunnel, thirdWheel>>
    /\ UNCHANGED <<envVars, listening, conn, upstream, sync, sent, harVars>>

\* SocketAddr::to_string: the text of a socket address.
AddrToString(a) == [text |-> a]

\* Mutant of HarEntry: serverIPAddress is the address of the tunnel's target.
HarEntryTargetAddr(c, k) ==
    [conn |-> c, k |-> k, serverIPAddress |-> AddrToString(<<"target", c>>),
     url |-> reqs[c][k].req.uri, status |-> 200]

\* The HAR entry of a blocked request: serverIPAddress is the text of the
\* address the policy read from the ThirdWheel.
HarEntry(c, k) ==
    [conn |-> c, k |-> k,
     serverIPAddress |-> AddrToString(thirdWheel[c].client_ip),
     url |-> reqs[c][k].req.uri, status |-> 200]

\* Mutant of HarSend: the send completes whether or not the queue has room.
HarSendUnbounded(c, k) ==
    /\ k \in DOMAIN reqs[c]
    /\ reqs[c][k].pc = "har"
    /\ harQueue' = Append(harQueue, HarEntry(c, k))
    /\ reqs' = [reqs EXCEPT ![c][k].pc = "done", ![c][k].status = "blocked",
                            ![c][k].answer = SynthesizedBody(reqs[c][k].req.body)]
    /\ UNCHANGED <<envVars, listening, conn, tunnel, upstream, thirdWheel,
                   queue, sync, sent, harEntries, harFile, harReceiver>>

\* Mutant of HarSend: the entry is sent with try_send, and the answer is
\* returned whether or not the queue took the entry.
HarSendTry(c, k) ==
    /\ k \in DOMAIN reqs[c]
    /\ reqs[c][k].pc = "har"
    /\ harQueue' = IF harReceiver = "open" /\ Len(harQueue) < HarCapacity
                     THEN Append(harQueue, HarEntry(c, k)) ELSE harQueue
    /\ reqs' = [reqs EXCEPT ![c][k].pc = "done", ![c][k].status = "blocked",
                            ![c][k].answer = SynthesizedBody(reqs[c][k].req.body)]
    /\ UNCHANGED <<envVars, listening, conn, tunnel, upstream, thirdWheel,
                   queue, sync, sent, harEntries, harFile, harReceiver>>

\* Mutant of HarSend: a send that fails lets the request through to the
\* synchronizer.
HarSendFailOpen(c, k) ==
    /\ k \in DOMAIN reqs[c]
    /\ reqs[c][k].pc = "har"
    /\ IF harReceiver = "dropped"
         THEN /\ reqs' = [reqs EXCEPT ![c][k].pc = "wait"]
              /\ queue' = [queue EXCEPT ![c] = Append(@, Pending(k, reqs[c][k].req))]
              /\ UNCHANGED harQueue
         ELSE /\ Len(harQueue) < HarCapacity
              /\ harQueue' = Append(harQueue, HarEntry(c, k))
              /\ reqs' = [reqs EXCEPT ![c][k].pc = "done", ![c][k].status = "blocked",
                                      ![c][k].answer = SynthesizedBody(reqs[c][k].req.body)]
              /\ UNCHANGED queue
    /\ UNCHANGED <<envVars, listening, conn, tunnel, upstream, thirdWheel, sync,
                   sent, harEntries, harFile, harReceiver>>

\* sender.send(entries).await of a blocked request: with the receiver
\* dropped it fails, and the policy's unwrap panics, which ends the server
\* task; otherwise it completes once the sink queue has room, and the policy
\* then returns the synthesized response.
HarSend(c, k) ==
    /\ k \in DOMAIN reqs[c]
    /\ reqs[c][k].pc = "har"
    /\ IF harReceiver = "dropped"
         THEN /\ EndServer(c, "panic", [reqs[c] EXCEPT ![k].pc = "panic"])
              /\ UNCHANGED harQueue
         ELSE /\ Len(harQueue) < HarCapacity
              /\ harQueue' = Append(harQueue, HarEntry(c, k))
              /\ reqs' = [reqs EXCEPT ![c][k].pc = "done", ![c][k].status = "blocked",
                                      ![c][k].answer = SynthesizedBody(reqs[c][k].req.body)]
              /\ UNCHANGED <<tunnel, thirdWheel>>
    /\ UNCHANGED <<envVars, listening, conn, upstream, queue, sync, sent,
                   harEntries, harFile, harReceiver>>

\* What a write_all puts in the file: har::to_json of a Har value whose log
\* holds the given entries (creator and comment are the same in every
\* document), and the bytes ",\n".
HarDocument(entries) == [text |-> "{\"log\":{..}}", entries |-> entries]
Separator == [text |-> ",\n", entries |-> <<>>]

\* Mutant of HarRecv: the file is written anew with the latest document.
HarRecvRewrites ==
    /\ harReceiver = "open"
    /\ harQueue # <<>>
    /\ harQueue' = Tail(harQueue)
    /\ harEntries' = Append(harEntries, Head(harQueue))
    /\ harFile' = <<HarDocument(Append(harEntries, Head(harQueue))), Separator>>
    /\ UNCHANGED <<envVars, listening, conn, tunnelVars, harReceiver>>

\* The receiver task: one entry is received, pushed on the entries vector,
\* and a document holding all entries so far, then ",\n", are written at
\* the end of the file (File::create opened it once, before the task).
HarRecv ==
    /\ harReceiver = "open"
    /\ harQueue # <<>>
    /\ harQueue' = Tail(harQueue)
    /\ harEntries' = Append(harEntries, Head(harQueue))
    /\ harFile' = harFile \o <<HarDocument(Append(harEntries, Head(harQueue))),
                               Separator>>
    /\ UNCHANGED <<envVars, listening, conn, tunnelVars, harReceiver>>

\* The receiver task panics in an iteration (har::to_json(..).unwrap() or
\* file.write_all(..).unwrap() on an I/O error), before anything of the
\* iteration's document is written: the task ends and drops the receiving
\* half of the sink queue with the entries still in it.
HarRecvPanics ==
    /\ harReceiver = "open"
    /\ harQueue # <<>>
    /\ harQueue' = <<>>
    /\ harEntries' = Append(harEntries, Head(harQueue))
    /\ harReceiver' = "dropped"
    /\ UNCHANGED <<envVars, listening, conn, tunnelVars, harFile>>

\* Mutant of ReplyRecv: the receiver only completes with a value.
ReplyRecvNeedsValue(rq) ==
    [ready |-> rq.reply # "none", val |-> rq.reply]

\* response_receiver.await.map_err(...)? of ThirdWheel::call: the value on
\* the reply channel once there is one; ServerError("Failed to get response
\* from server") once the sending half was dropped without one; pending
\* otherwise.
ReplyRecv(rq) ==
    IF rq.reply # "none" THEN [ready |-> TRUE, val |-> rq.reply]
    ELSE IF rq.senderDropped THEN [ready |-> TRUE, val |-> "ErrReply"]
    ELSE [ready |-> FALSE, val |-> "none"]

\* Mutant of PolicyResume: the forward path records the exchange in the HAR
\* sink before it returns the response.
PolicyResumeLogs(c, k) ==
    /\ k \in DOMAIN reqs[c]
    /\ reqs[c][k].pc = "wait"
    /\ ReplyRecv(reqs[c][k]).ready
    /\ LET v == ReplyRecv(reqs[c][k]).val IN
       IF v = "Ok"
         THEN /\ reqs' = [reqs EXCEPT ![c][k].pc = "done", ![c][k].call = v,
                                      ![c][k].status = "forwarded"]
              /\ harQueue' = Append(harQueue, HarEntry(c, k))
              /\ UNCHANGED <<tunnel, thirdWheel>>
         ELSE /\ EndServer(c, "panic",
                           [reqs[c] EXCEPT ![k].pc = "panic", ![k].call = v])
              /\ UNCHANGED harQueue
    /\ UNCHANGED <<envVars, listening, conn, upstream, queue, sync, sent, harEntries,
                   harFile, harReceiver>>

\* The call future of a forwarded request completes with what its reply
\* receiver yields: Ok is returned to the client, Err panics in the
\* policy's unwrap and ends the server task.
PolicyResume(c, k) ==
    /\ k \in DOMAIN reqs[c]
    /\ reqs[c][k].pc = "wait"
    /\ ReplyRecv(reqs[c][k]).ready
    /\ LET v == ReplyRecv(reqs[c][k]).val IN
       IF v = "Ok"
         THEN /\ reqs' = [reqs EXCEPT ![c][k].pc = "done", ![c][k].call = v,
                                      ![c][k].status = "forwarded"]
              /\ UNCHANGED <<tunnel, thirdWheel>>
         ELSE EndServer(c, "panic",
                        [reqs[c] EXCEPT ![k].pc = "panic", ![k].call = v])
    /\ UNCHANGED <<envVars, listening, conn, upstream, queue, sync, sent, harVars>>

\* Mutant of ServerClose: the end of one server task ends the listener.
ServerCloseStopsListening(c, cause) ==
    /\ tunnel[c].stage = "BRIDGED"
    /\ EndServer(c, cause, reqs[c])
    /\ listening' = FALSE
    /\ UNCHANGED <<envVars, conn, upstream, queue, sync, sent, harVars>>

\* serve_connection returns: the client closed the connection ("eof") or
\* serving failed ("serve").
ServerClose(c, cause) ==
    /\ tunnel[c].stage = "BRIDGED"
    /\ EndServer(c, cause, reqs[c])
    /\ UNCHANGED <<envVars, listening, conn, upstream, queue, sync, sent, harVars>>

\* ------------------------------------------------- request synchronizer
\* Mutants of QueueRecv: the newest entry is taken; the oldest entry is
\* returned but left in the queue.
QueueRecvNewest(q) == [item |-> q[Len(q)], rest |-> SubSeq(q, 1, Len(q) - 1)]
QueueRecvPeek(q) == [item |-> Head(q), rest |-> q]

\* receiver.recv() with a non-empty queue: the oldest entry is taken out.
QueueRecv(q) == [item |-> Head(q), rest |-> Tail(q)]

\* Mutants of RecvNone: None as soon as the senders are dropped, buffered
\* entries or not; never None, as if a sender were kept alive somewhere;
\* None whenever the queue is empty, senders or not.
RecvNoneOnClose(c) == ~thirdWheel[c].alive
RecvNeverNone(c) == FALSE
RecvNoneWhenIdle(c) == queue[c] = <<>>

\* receiver.recv() returns None: the queue is empty and every sender (the
\* ThirdWheel and its clones, all owned by the server task) is dropped.
RecvNone(c) == queue[c] = <<>> /\ ~thirdWheel[c].alive

\* The Error values of the model: the names the model uses for them, and
\* the variant and message each stands for.
ErrorOf(e) ==
    CASE e = "ErrNoPath" ->
           [variant |-> "RequestError", msg |-> "URI did not contain a path"]
      [] e = "ErrInvalid" ->
           [variant |-> "RequestError", msg |-> "Given URI was invalid"]
      [] e = "ErrTransport" ->
           [variant |-> "HyperError", msg |-> "transport"]
      [] e = "ErrConnect" ->
           [variant |-> "ServerError", msg |-> "Failed to connect to server correctly"]
      [] e = "ErrReply" ->
           [variant |-> "ServerError", msg |-> "Failed to get response from server"]
      [] OTHER -> [variant |-> "none", msg |-> ""]

\* Mutant of Relativize: a URI without path-and-query is sent as "/".
RelativizeDefaultsRoot(u) ==
    LET pq == IF PathAndQuery(u) = NoPath THEN [path |-> "/", query |-> ""]
                                          ELSE PathAndQuery(u)
        p == ParsePath(pq) IN
    IF p.ok THEN [ok |-> TRUE, uri |-> p.uri, err |-> "none"]
            ELSE [ok |-> FALSE, uri |-> u, err |-> "ErrInvalid"]

\* relativized_uri: the path-and-query of the request URI, parsed again as a
\* URI; the two errors of the synchronizer otherwise.
Relativize(u) ==
    LET pq == PathAndQuery(u) IN
    IF pq = NoPath
      THEN [ok |-> FALSE, uri |-> u, err |-> "ErrNoPath"]
      ELSE LET p == ParsePath(pq) IN
           IF p.ok THEN [ok |-> TRUE, uri |-> p.uri, err |-> "none"]
                   ELSE [ok |-> FALSE, uri |-> u, err |-> "ErrInvalid"]

\* Mutants of Outgoing: the request is passed on as it came; every
\* hop-by-hop header is removed; the request is rebuilt without its body.
OutgoingUnchanged(r, uri) == r
OutgoingNoHopByHop(r, uri) == [r EXCEPT !.uri = uri, !.hdrs = @ \ HopByHop]
OutgoingWithoutBody(r, uri) ==
    [r EXCEPT !.uri = uri, !.hdrs = @ \ {"proxy-connection"}, !.body = EmptyBody]

\* The request as passed to send_request: the URI replaced by the relative
\* one and the proxy-connection header removed.
Outgoing(r, uri) == [r EXCEPT !.uri = uri, !.hdrs = @ \ {"proxy-connection"}]

\* Mutant of Awaiting: the response future is not awaited.
NotAwaiting(k) == [pc |-> "recv", cur |-> k, fut |-> "none", resp |-> 0]

\* The synchronizer suspended in response.await for request k.
Awaiting(k) == [pc |-> "await", cur |-> k, fut |-> "none", resp |-> 0]

\* Mutant of Deliver: the reply sender is dropped without a value.
DeliverDrops(rs, k, res, resp) == [rs EXCEPT ![k].senderDropped = TRUE]

\* sender.send(res) on the reply channel of request k: the value arrives
\* when the receiver (held by the waiting call future) is still there, and
\* is given back, and logged with error!, when it was dropped.
Deliver(rs, k, res, resp) ==
    [rs EXCEPT ![k].sends = @ + 1,
               ![k].reply = IF rs[k].pc = "wait" THEN res ELSE @,
               ![k].resp = IF rs[k].pc = "wait" THEN resp ELSE @,
               ![k].logged = IF rs[k].pc = "wait" THEN @ ELSE @ + 1]

\* Mutant of AfterSend: the result of send is unwrapped, and a value that
\* was given back panics the task.
AfterSendUnwrap(rs, k) ==
    IF rs[k].pc = "wait" THEN [pc |-> "recv", cur |-> 0, fut |-> "none", resp |-> 0]
    ELSE [pc |-> "aborted", cur |-> 0, fut |-> "none", resp |-> 0]

\* if let Err(e) = sender.send(..) { error!(..) }: whether the value sent on
\* the reply channel of request k was taken or given back, the iteration
\* ends and the task is back in recv().
AfterSend(rs, k) == [pc |-> "recv", cur |-> 0, fut |-> "none", resp |-> 0]

\* Mutant of SyncRecv: an entry whose reply receiver is gone is taken from
\* the queue and skipped.
SyncRecvSkipsClosed(c) ==
    /\ sync[c].pc = "recv"
    /\ queue[c] # <<>>
    /\ LET got == QueueRecv(queue[c])
           k == got.item.k
           rel == Relativize(got.item.req.uri)
           counted == [reqs[c] EXCEPT ![k].deq = @ + 1]
       IN /\ queue' = [queue EXCEPT ![c] = got.rest]
          /\ IF reqs[c][k].pc # "wait"
               THEN /\ reqs' = [reqs EXCEPT ![c] = counted]
                    /\ UNCHANGED <<sent, upstream, sync>>
             ELSE IF rel.ok
               THEN /\ sent' = [sent EXCEPT ![c] =
                                  Append(@, Pending(k, Outgoing(got.item.req, rel.uri)))]
                    /\ upstream' = [upstream EXCEPT
                                      ![c].outstanding = @ \cup {k},
                                      ![c].used = @ \cup {upstream[c].opened}]
                    /\ sync' = [sync EXCEPT ![c] = Awaiting(k)]
                    /\ reqs' = [reqs EXCEPT ![c] = counted]
               ELSE /\ reqs' = [reqs EXCEPT ![c] = Deliver(counted, k, rel.err, 0)]
                    /\ UNCHANGED <<sent, upstream, sync>>
    /\ UNCHANGED <<envVars, listening, conn, tunnel, thirdWheel, harVars>>

\* One iteration of run up to its suspension: an entry is received and its
\* URI relativized; on success the request is submitted to the upstream
\* sender and the task awaits the response future, otherwise the error is
\* sent on the reply channel and the loop goes on.
SyncRecv(c) ==
    /\ sync[c].pc = "recv"
    /\ queue[c] # <<>>
    /\ LET got == QueueRecv(queue[c])
           k == got.item.k
           rel == Relativize(got.item.req.uri)
           counted == [reqs[c] EXCEPT ![k].deq = @ + 1]
       IN /\ queue' = [queue EXCEPT ![c] = got.rest]
          /\ IF rel.ok
               THEN /\ sent' = [sent EXCEPT ![c] =
                                  Append(@, Pending(k, Outgoing(got.item.req, rel.uri)))]
                    /\ upstream' = [upstream EXCEPT
                                      ![c].outstanding = @ \cup {k},
                                      ![c].used = @ \cup {upstream[c].opened}]
                    /\ sync' = [sync EXCEPT ![c] = Awaiting(k)]
                    /\ reqs' = [reqs EXCEPT ![c] = counted]
               ELSE /\ reqs' = [reqs EXCEPT ![c] = Deliver(counted, k, rel.err, 0)]
                    /\ UNCHANGED <<sent, upstream, sync>>
    /\ UNCHANGED <<envVars, listening, conn, tunnel, thirdWheel, harVars>>

\* What the response future of a submitted request resolves with: the
\* upstream's response, or a hyper::Error of the transport.
Resolutions == {"Ok", "hyper::Error"}

\* The connection driver resolves the response future of the outstanding
\* request: with the upstream's response to that request or with a
\* transport error of that request.
UpstreamRespond(c, res) ==
    /\ sync[c].pc = "await"
    /\ \E k \in upstream[c].outstanding :
         /\ k = sync[c].cur
         /\ upstream' = [upstream EXCEPT ![c].outstanding = @ \ {k}]
         /\ sync' = [sync EXCEPT ![c].fut = res, ![c].resp = k]
    /\ UNCHANGED <<envVars, listening, conn, tunnel, thirdWheel, queue, sent, reqs, harVars>>

\* Mutant of IntoError: the transport error is replaced by a ServerError.
IntoServerError(e) == "ErrReply"

\* From<hyper::Error> for Error (#[from], transparent): the hyper error
\* wrapped in Error::HyperError.
IntoError(e) == IF e = "hyper::Error" THEN "ErrTransport" ELSE e

\* map_err(|e| e.into()) on the value the response future resolved with.
MapErrInto(v) == IF v = "Ok" THEN v ELSE IntoError(v)

\* Mutant of ReplyChannel: the reply channel of the oldest queued entry.
ReplyChannelOfNext(c) ==
    IF queue[c] # <<>> THEN Head(queue[c]).k ELSE sync[c].cur

\* The reply channel (sender) bound by the iteration the synchronizer is in:
\* the one that came out of the queue with the request it submitted.
ReplyChannel(c) == sync[c].cur

\* The rest of the iteration: the resolved response (or the transport error,
\* converted by into) is sent on the reply channel; the loop goes on.
SyncDeliver(c) ==
    /\ sync[c].pc = "await"
    /\ sync[c].fut # "none"
    /\ reqs' = [reqs EXCEPT ![c] =
                  Deliver(@, ReplyChannel(c), MapErrInto(sync[c].fut),
                          sync[c].resp)]
    /\ sync' = [sync EXCEPT ![c] = AfterSend(reqs[c], ReplyChannel(c))]
    /\ UNCHANGED <<envVars, listening, conn, tunnel, upstream, thirdWheel, queue, sent, harVars>>

\* recv() returned None: run returns, the task ends and drops the request
\* sender, which releases the upstream session.
SyncExit(c) ==
    /\ sync[c].pc = "recv"
    /\ RecvNone(c)
    /\ sync' = [sync EXCEPT ![c].pc = "done"]
    /\ upstream' = [upstream EXCEPT ![c].st = "released"]
    /\ UNCHANGED <<envVars, listening, conn, tunnel, thirdWheel, queue, sent, reqs, harVars>>

\* The synchronizer task ends without leaving its loop (a panic inside a
\* library call it makes, or the runtime shutting down): the task's future
\* is dropped, and with it the queue's receiver, the entries still buffered,
\* the reply sender of the iteration in progress and the request sender.
SyncAbort(c) ==
    /\ sync[c].pc \in {"recv", "await"}
    /\ sync' = [sync EXCEPT ![c] = [NoSync EXCEPT !.pc = "aborted"]]
    /\ queue' = [queue EXCEPT ![c] = <<>>]
    /\ upstream' = [upstream EXCEPT ![c].st = "released", ![c].outstanding = {}]
    /\ reqs' = [reqs EXCEPT ![c] =
                  [k \in DOMAIN @ |->
                     IF \/ \E i \in DOMAIN queue[c] : queue[c][i].k = k
                        \/ sync[c].pc = "await" /\ sync[c].cur = k
                       THEN [@[k] EXCEPT !.senderDropped = TRUE]
                       ELSE @[k]]]
    /\ UNCHANGED <<envVars, listening, conn, tunnel, thirdWheel, sent, harVars>>

\* ------------------------------------------------ utilities under test
\* parse_request is called on a body.
ParseRequestInit(body) ==
    [fn |-> "parse_request", pc |-> "call", body |-> body, out |-> Returned("")]

\* The call of parse_request runs to its end: it returns or panics.
ParseRequestCall ==
    /\ util.fn = "parse_request"
    /\ util.pc = "call"
    /\ LET out == ParseRequest(util.body) IN
       util' = [util EXCEPT !.out = out,
                            !.pc = IF out.panic THEN "panicked" ELSE "returned"]
    /\ UNCHANGED <<listening, conn, tunnelVars, harVars, main>>

\* create_response is called on a body.
CreateResponseInit(body) ==
    [fn |-> "create_response", pc |-> "call", body |-> body,
     response |-> [status |-> 0, content_type |-> ""], task |-> "none",
     pending |-> <<>>, chan |-> <<>>, read |-> <<>>]

\* create_response returns the response head with a streaming body, having
\* spawned the task that feeds the stream.
CreateResponseCall ==
    /\ util.fn = "create_response"
    /\ util.pc = "call"
    /\ util' = [util EXCEPT !.pc = "returned", !.task = "spawned",
                            !.response = [status |-> 200,
                                          content_type |-> "text/event-stream"]]
    /\ UNCHANGED <<listening, conn, tunnelVars, harVars, main>>

\* The spawned task up to its first send: it panics unless the body is a
\* JSON object whose messages is an array whose first element has an id;
\* otherwise it builds the three messages.
FrameTaskStart ==
    /\ util.fn = "create_response"
    /\ util.task = "spawned"
    /\ LET json == ConvertBodyToJson(util.body) IN
       IF HasMessages(json) /\ json.messages = "array" /\ json.id
         THEN util' = [util EXCEPT !.task = "sending",
                         !.pending = <<Chunk(Message1), Chunk(Message2(json)),
                                       Chunk(Message3), DoneChunk>>]
         ELSE util' = [util EXCEPT !.task = "panicked"]
    /\ UNCHANGED <<listening, conn, tunnelVars, harVars, main>>

\* tx.send(chunk).await completes when the channel has room; the task ends,
\* dropping tx, after its last send.
FrameTaskSend ==
    /\ util.fn = "create_response"
    /\ util.task = "sending"
    /\ Len(util.chan) < SseCapacity
    /\ util' = [util EXCEPT !.chan = Append(@, Head(util.pending)),
                            !.pending = Tail(@),
                            !.task = IF Tail(util.pending) = <<>> THEN "done"
                                     ELSE "sending"]
    /\ UNCHANGED <<listening, conn, tunnelVars, harVars, main>>

\* The reader of the body (hyper::body::to_bytes) polls the stream: it gets
\* the next chunk, or the end of the stream once the channel is empty and
\* the task has dropped tx.
BodyRecv ==
    /\ util.fn = "create_response"
    /\ util.pc = "returned"
    /\ IF util.chan # <<>>
         THEN util' = [util EXCEPT !.read = Append(@, Head(util.chan)),
                                   !.chan = Tail(@)]
         ELSE /\ util.task \in {"done", "panicked"}
              /\ util' = [util EXCEPT !.pc = "complete"]
    /\ UNCHANGED <<listening, conn, tunnelVars, harVars, main>>

\* Uri's Display ("{}"): scheme and "://", authority, path, "?" and query,
\* each when present.
UriToString(u) ==
    (IF u.scheme THEN "https://" ELSE "")
    \o (IF u.authority THEN "example.com" ELSE "")
    \o UriPath(u)
    \o (IF u.query # "" THEN "?" \o u.query ELSE "")

\* A header value: its ";"-separated segments, each a name with or without
\* "=" and a value, and whether all its bytes are visible ASCII.
Seg(k, eq, v) == [k |-> k, eq |-> eq, v |-> v]
HValue(segs, ascii) == [segs |-> segs, ascii |-> ascii]

HeaderValues ==
    {HValue(<<Seg("application/json", FALSE, "")>>, TRUE),
     HValue(<<Seg("name", TRUE, "value")>>, TRUE),
     HValue(<<Seg("a", TRUE, "1"), Seg("b", TRUE, "2")>>, TRUE),
     HValue(<<Seg("caf", FALSE, "")>>, FALSE)}

HeaderNames == {"content-type", "cookie", "x-note"}

\* The text of a header value.
SegText(g) == IF g.eq THEN g.k \o "=" \o g.v ELSE g.k
RECURSIVE ValueText(_)
ValueText(segs) ==
    IF segs = <<>> THEN ""
    ELSE IF Len(segs) = 1 THEN SegText(segs[1])
    ELSE SegText(segs[1]) \o "; " \o ValueText(Tail(segs))

\* HeaderValue::to_str: the text, or an error when a byte of the value is
\* not visible ASCII.
ToStr(value) ==
    IF value.ascii THEN [ok |-> TRUE, text |-> ValueText(value.segs)]
    ELSE [ok |-> FALSE, text |-> ""]

\* Cookie::parse: the first segment must be a name=value pair with a
\* non-empty name; the segments after it are attributes.
CookieParse(value) ==
    LET g == value.segs[1] IN
    IF g.eq /\ g.k # "" THEN [ok |-> TRUE, name |-> g.k, value |-> g.v]
    ELSE [ok |-> FALSE, name |-> "", value |-> ""]

\* The header maps of the model, as the sequence their iteration yields:
\* the values of one name follow each other.
Grouped(h) ==
    \A i, j, k \in DOMAIN h :
       (i < j /\ j < k /\ h[i].name = h[k].name) => h[j].name = h[i].name

RECURSIVE SeqsUpTo(_, _)
SeqsUpTo(S, n) ==
    IF n = 0 THEN {<<>>}
    ELSE SeqsUpTo(S, n - 1)
         \cup {Append(q, x) : q \in {r \in SeqsUpTo(S, n - 1) : Len(r) = n - 1},
                              x \in S}

HeaderMaps ==
    {h \in SeqsUpTo([name : HeaderNames, value : HeaderValues], MaxHeaders) :
       Grouped(h)}

\* The request heads (http::request::Parts) of the model.
HttpParts ==
    [method : {"GET", "POST"},
     uri : {MkUri(TRUE, TRUE, "/b", "q"), MkUri(FALSE, FALSE, "/a", "")},
     headers : HeaderMaps]

NoHarRequest ==
    [method |-> "", url |-> "", http_version |-> "", headers |-> <<>>,
     cookies |-> <<>>, post_data |-> [some |-> FALSE, mime_type |-> ""]]

\* copy_from_http_request_to_har: every header value goes through
\* to_str().unwrap() and every Cookie header through
\* Cookie::parse(..).unwrap(), which panic on an error; postData is present
\* when the body, read as UTF-8 (as empty when it is not), has bytes.
CopyFromHttpRequestToHar(parts, body) ==
    LET hs == parts.headers
        cs == SelectSeq(hs, LAMBDA h : h.name = "cookie")
        ct == SelectSeq(hs, LAMBDA h : h.name = "content-type")
    IN
    IF \E i \in DOMAIN hs : ~ToStr(hs[i].value).ok
      THEN [panic |-> TRUE, request |-> NoHarRequest]
    ELSE IF \E i \in DOMAIN cs : ~CookieParse(cs[i].value).ok
      THEN [panic |-> TRUE, request |-> NoHarRequest]
    ELSE [panic |-> FALSE,
          request |->
            [method |-> parts.method,
             url |-> UriToString(parts.uri),
             http_version |-> "HTTP/1.1",
             headers |-> [i \in DOMAIN hs |->
                            [name |-> hs[i].name,
                             value |-> ToStr(hs[i].value).text]],
             cookies |-> [i \in DOMAIN cs |->
                            [name |-> CookieParse(cs[i].value).name,
                             value |-> CookieParse(cs[i].value).value]],
             post_data |->
               [some |-> body.root \notin {"invalid_utf8", "empty"},
                mime_type |-> IF ct = <<>> THEN ""
                              ELSE ToStr(ct[1].value).text]]]

\* copy_from_http_request_to_har is called on a request head and a body.
CopyRequestInit(parts, body) ==
    [fn |-> "copy_from_http_request_to_har", pc |-> "call", parts |-> parts,
     body |-> body, out |-> [panic |-> FALSE, request |-> NoHarRequest]]

\* The call of copy_from_http_request_to_har runs to its end.
CopyRequestCall ==
    /\ util.fn = "copy_from_http_request_to_har"
    /\ util.pc = "call"
    /\ LET out == CopyFromHttpRequestToHar(util.parts, util.body) IN
       util' = [util EXCEPT !.out = out,
                            !.pc = IF out.panic THEN "panicked" ELSE "returned"]
    /\ UNCHANGED <<listening, conn, tunnelVars, harVars, main>>

\* -------------------------------------------------------- specifications
\* The steps of connection c other than the arrival of a client request.
ConnStep(c) ==
    \/ Accept(c)
    \/ \E freq \in FrontReqs : ServeRequest(c, freq)
    \/ \E ok \in BOOLEAN : Upgrade(c, ok)
    \/ \E ok \in BOOLEAN : ConnectUpstream(c, ok)
    \/ \E res \in {"ok", "spoof", "client_tls"} : AcceptClientTls(c, res)
    \/ \E ok \in BOOLEAN : UpstreamHandshake(c, ok)
    \/ \E k \in 1..Len(reqs[c]) : HarSend(c, k)
    \/ \E k \in 1..Len(reqs[c]) : PolicyResume(c, k)
    \/ \E cause \in {"eof", "serve"} : ServerClose(c, cause)
    \/ SyncRecv(c)
    \/ \E res \in Resolutions : UpstreamRespond(c, res)
    \/ SyncDeliver(c)
    \/ SyncExit(c)

\* The connection Spec explores.
Focus == CHOOSE c \in Conns : \A d \in Conns : c <= d

\* One client connection, with up to MaxReq requests of every kind.
Next ==
    \/ ConnStep(Focus)
    \/ /\ Len(reqs[Focus]) < MaxReq
       /\ \E r \in ReqKinds : ClientRequest(Focus, r)
    \/ HarRecv

Spec == Init /\ [][Next]_vars

\* One client connection whose client sends up to HarMaxReq requests that
\* the policy blocks, each after the answer to the one before (as the
\* HTTP/1.1 server reads them), and never closes the connection.
HarNext ==
    \/ Accept(Focus)
    \/ \E freq \in FrontReqs : ServeRequest(Focus, freq)
    \/ \E ok \in BOOLEAN : Upgrade(Focus, ok)
    \/ \E ok \in BOOLEAN : ConnectUpstream(Focus, ok)
    \/ \E res \in {"ok", "spoof", "client_tls"} : AcceptClientTls(Focus, res)
    \/ \E ok \in BOOLEAN : UpstreamHandshake(Focus, ok)
    \/ /\ Len(reqs[Focus]) < HarMaxReq
       /\ \A k \in DOMAIN reqs[Focus] : reqs[Focus][k].pc \notin {"har", "wait"}
       /\ ClientRequest(Focus, PostConfidential)
    \/ \E k \in 1..Len(reqs[Focus]) : HarSend(Focus, k)
    \/ HarRecv

HarSpec == Init /\ [][HarNext]_vars

\* The functions of utilities.rs, each called on the inputs of the model.
UtilInit ==
    /\ ProxyIdle
    /\ main = Serving
    /\ \/ \E body \in Bodies : util = ParseRequestInit(body)
       \/ \E body \in Bodies : util = CreateResponseInit(body)
       \/ \E parts \in HttpParts, body \in {EmptyBody, CleanBody} :
             util = CopyRequestInit(parts, body)

UtilNext ==
    \/ ParseRequestCall
    \/ CreateResponseCall
    \/ FrameTaskStart
    \/ FrameTaskSend
    \/ BodyRecv
    \/ CopyRequestCall

UtilSpec == UtilInit /\ [][UtilNext]_vars

\* The number of client requests of all tunnels.
RECURSIVE TotalReqs(_)
TotalReqs(n) == IF n = 0 THEN 0 ELSE Len(reqs[n]) + TotalReqs(n - 1)

\* NumConns concurrent client connections sharing MultiMaxReq requests.
MultiNext ==
    \/ \E c \in Conns : ConnStep(c)
    \/ /\ TotalReqs(NumConns) < MultiMaxReq
       /\ \E c \in Conns, r \in MultiKinds : ClientRequest(c, r)
    \/ HarRecv

MultiSpec == Init /\ [][MultiNext]_vars

\* One client connection, with up to FairMaxReq requests of every kind.
FairNext ==
    \/ ConnStep(Focus)
    \/ /\ Len(reqs[Focus]) < FairMaxReq
       /\ \E r \in ReqKinds : ClientRequest(Focus, r)
    \/ HarRecv

\* The premise "fair scheduling of the tunnel's tasks": the synchronizer
\* task takes the steps it can take, and the connection driver resolves the
\* response future of a submitted request (with the response, or with an
\* error when the connection ends).
FairSpec ==
    /\ Init
    /\ [][FairNext]_vars
    /\ WF_vars(SyncRecv(Focus))
    /\ WF_vars(\E res \in Resolutions : UpstreamRespond(Focus, res))
    /\ WF_vars(SyncDeliver(Focus))
    /\ WF_vars(SyncExit(Focus))

\* One client connection with up to FairMaxReq requests, whose synchronizer
\* task may end abnormally.
AbortNext ==
    \/ FairNext
    \/ SyncAbort(Focus)

\* Fair scheduling of the tunnel's tasks, the server task polling the call
\* futures included, in an environment where the synchronizer task may be
\* ended from outside.
AbortSpec ==
    /\ Init
    /\ [][AbortNext]_vars
    /\ WF_vars(SyncRecv(Focus))
    /\ WF_vars(\E res \in Resolutions : UpstreamRespond(Focus, res))
    /\ WF_vars(SyncDeliver(Focus))
    /\ WF_vars(SyncExit(Focus))
    /\ \A k \in 1..FairMaxReq : WF_vars(PolicyResume(Focus, k))

\* A connection other than the one Spec explores.
Other == CHOOSE c \in Conns : c # Focus

\* Two client connections, the first with a tunnel to chatgpt.com and the
\* other with a tunnel to example.com, each with up to TargetMaxReq
\* confidential chat requests.
TargetNext ==
    \/ \E c \in {Focus, Other} : ConnStep(c)
    \/ \E c \in {Focus, Other} :
         /\ Len(reqs[c]) < TargetMaxReq
         /\ \E r \in TargetKinds : ClientRequest(c, r)
    \/ HarRecv

TargetSpec == Init /\ [][TargetNext]_vars

\* No policy future of tunnel c is in flight: the HTTP/1.1 server reads the
\* next request of a connection after it answered the one before.
Answered(c) == \A k \in DOMAIN reqs[c] : reqs[c][k].pc \notin {"har", "wait"}

\* Two client connections while the receiver task does not take entries
\* (it sits in a write to the output file): the client of the first sends
\* up to HarMaxReq requests that the policy blocks; once these have filled
\* the sink queue the other client connects and sends up to StallMaxReq
\* requests, blocked or not. Each client sends a request after the answer
\* to the one before.
StallNext ==
    \/ \E c \in {Focus, Other} :
         /\ c = Focus \/ Len(harQueue) = HarCapacity
         /\ ConnStep(c)
    \/ \E c \in {Focus, Other} :
         /\ Answered(c)
         /\ IF c = Focus
              THEN /\ Len(reqs[c]) < HarMaxReq
                   /\ ClientRequest(c, PostConfidential)
              ELSE /\ Len(harQueue) = HarCapacity
                   /\ Len(reqs[c]) < StallMaxReq
                   /\ \E r \in StallKinds : ClientRequest(c, r)

\* Fair scheduling of the second tunnel's synchronizer and connection
\* driver.
StallSpec ==
    /\ Init
    /\ [][StallNext]_vars
    /\ WF_vars(SyncRecv(Other))
    /\ WF_vars(\E res \in Resolutions : UpstreamRespond(Other, res))
    /\ WF_vars(SyncDeliver(Other))

\* One client connection with up to BlockMaxReq requests to the chat
\* endpoint, while the receiver task may panic.
BlockNext ==
    \/ ConnStep(Focus)
    \/ /\ Len(reqs[Focus]) < BlockMaxReq
       /\ \E r \in BlockKinds : ClientRequest(Focus, r)
    \/ HarRecv
    \/ HarRecvPanics

BlockSpec == Init /\ [][BlockNext]_vars

\* The process from the start of main, in every environment.
LifeInit ==
    /\ listening = FALSE
    /\ NoConnections
    /\ \E env \in Envs : main = Starting(env)
    /\ util = NoCall

\* main's set-up, then one client connection with up to FairMaxReq requests
\* while the process lives, and the listening task dropped at any time.
LifeNext ==
    \/ MainLoadCa
    \/ MainBind
    \/ MainCreateFile
    \/ ListenerDropped
    \/ /\ main.pc \in {"create_file", "join"}
       /\ FairNext

\* main takes its steps.
LifeSpec ==
    /\ LifeInit
    /\ [][LifeNext]_vars
    /\ WF_vars(MainLoadCa)

\* ----------------------------------------------------------------- claims
\* The request numbers waiting in the queue of c, and those submitted.
QueuedKs(c) == {queue[c][i].k : i \in DOMAIN queue[c]}
SentKs(c) == {sent[c][i].k : i \in DOMAIN sent[c]}

\* C1: requests are numbered in enqueue order (a request is enqueued in the
\* step that creates it), so strict FIFO says: the requests submitted
\* upstream appear in increasing order, and every request still waiting in
\* the queue is younger than every request already submitted.
C1_Fifo ==
    \A c \in Conns :
      /\ \A i, j \in DOMAIN sent[c] : i < j => sent[c][i].k < sent[c][j].k
      /\ \A i \in DOMAIN sent[c], j \in DOMAIN queue[c] : sent[c][i].k < queue[c][j].k
      /\ \A i, j \in DOMAIN queue[c] : i < j => queue[c][i].k < queue[c][j].k

\* Two requests were submitted while a third was waiting behind them.
C1_Witness ==
    /\ Len(sent[Focus]) >= 2
    /\ Len(queue[Focus]) >= 1

\* C2: at most one request of a session has its response outstanding, the
\* synchronizer is back in recv() only when none is, the outstanding request
\* is the one the synchronizer awaits, and every request submitted on the
\* session was dequeued by the synchronizer of that tunnel.
C2_OneOutstanding ==
    \A c \in Conns :
      /\ Cardinality(upstream[c].outstanding) <= 1
      /\ sync[c].pc # "await" => upstream[c].outstanding = {}
      /\ upstream[c].outstanding \subseteq {sync[c].cur}
      /\ \A i \in DOMAIN sent[c] : reqs[c][sent[c][i].k].deq >= 1

\* A response is outstanding while another request waits in the queue.
C2_Witness ==
    /\ Cardinality(upstream[Focus].outstanding) = 1
    /\ Len(queue[Focus]) >= 1
    /\ Len(sent[Focus]) >= 2

C4_SingleDelivery ==
    \A c \in Conns : \A k \in DOMAIN reqs[c] :
      /\ reqs[c][k].deq <= 1
      /\ reqs[c][k].sends <= reqs[c][k].deq
      /\ reqs[c][k].reply # "none" => reqs[c][k].sends = 1
      /\ k \in QueuedKs(c) => reqs[c][k].deq = 0

\* Two requests of one tunnel each got their single result.
C4_Witness ==
    \E j, k \in DOMAIN reqs[Focus] :
      /\ j # k
      /\ reqs[Focus][j].reply = "Ok"
      /\ reqs[Focus][k].reply \in {"ErrNoPath", "ErrTransport"}

\* C5: every request submitted to the upstream sender has no
\* proxy-connection header and an origin-form URI: no scheme, no authority,
\* a path.
C5_HeaderHygiene ==
    \A c \in Conns : \A i \in DOMAIN sent[c] :
      /\ "proxy-connection" \notin sent[c][i].req.hdrs
      /\ ~sent[c][i].req.uri.scheme
      /\ ~sent[c][i].req.uri.authority
      /\ sent[c][i].req.uri.path # ""

\* A request that came with an absolute URI and a proxy-connection header
\* was submitted.
C5_Witness ==
    \E i \in DOMAIN sent[Focus] :
      LET orig == reqs[Focus][sent[Focus][i].k].req IN
      /\ orig.uri.scheme
      /\ "proxy-connection" \in orig.hdrs

\* C6 as claimed: no hop-by-hop header reaches the upstream.
C6_NoHopByHopUpstream ==
    \A c \in Conns : \A i \in DOMAIN sent[c] :
      sent[c][i].req.hdrs \cap HopByHop = {}

\* C6 as amended: ThirdWheel::call enqueues the request as it got it, and of
\* the headers of a request exactly proxy-connection is removed (by the
\* synchronizer) before the upstream: every other header, hop-by-hop or not,
\* reaches the upstream.
C6_OnlyProxyConnectionRemoved ==
    \A c \in Conns :
      /\ \A i \in DOMAIN queue[c] : queue[c][i].req = reqs[c][queue[c][i].k].req
      /\ \A i \in DOMAIN sent[c] :
           sent[c][i].req.hdrs =
             reqs[c][sent[c][i].k].req.hdrs \ {"proxy-connection"}

\* A request was submitted upstream with its connection header.
C6_Witness ==
    \E i \in DOMAIN sent[Focus] :
      /\ "connection" \in sent[Focus][i].req.hdrs
      /\ "proxy-connection" \in reqs[Focus][sent[Focus][i].k].req.hdrs

\* The condition under which C7 says the policy blocks.
C7_BlockCase(r) ==
    /\ r.method = "POST"
    /\ r.host = "chatgpt.com"
    /\ r.uri.path = "/backend-api/conversation"
    /\ r.body = ConfidentialBody

\* C7: a request the policy blocks is never enqueued, never dequeued and
\* never submitted upstream: its future only waits for the HAR sink and
\* returns the synthesized response.
C7_BlockedNeverForwarded ==
    \A c \in Conns : \A k \in DOMAIN reqs[c] :
      C7_BlockCase(reqs[c][k].req) =>
        /\ k \notin QueuedKs(c)
        /\ k \notin SentKs(c)
        /\ reqs[c][k].deq = 0
        /\ reqs[c][k].reply = "none"
        /\ reqs[c][k].status # "forwarded"

\* A blocked request got its synthesized response while another request of
\* the same tunnel was forwarded.
C7_Witness ==
    \E j, k \in DOMAIN reqs[Focus] :
      /\ C7_BlockCase(reqs[Focus][k].req)
      /\ reqs[Focus][k].status = "blocked"
      /\ reqs[Focus][j].status = "forwarded"
      /\ Len(sent[Focus]) = 1

\* Everything the model holds about connection c.
ConnState(c) ==
    <<conn[c], tunnel[c], upstream[c], thirdWheel[c], queue[c], sync[c],
      sent[c], reqs[c]>>

\* The causes with which a tunnel ends on an error.
ErrorCauses == {"upgrade", "upstream", "spoof", "client_tls", "handshake",
                "serve", "panic"}

\* C8: a step in which a tunnel ends leaves the state of every other
\* connection, the HAR sink and the listening socket as they were; the
\* listening socket goes on serving.
C8_Isolation ==
    [][\A c \in Conns :
         (tunnel[c].stage # "CLOSED" /\ tunnel'[c].stage = "CLOSED") =>
           /\ listening'
           /\ harQueue' = harQueue
           /\ \A d \in Conns \ {c} : ConnState(d)' = ConnState(d)]_vars

\* One tunnel ended on an error while another is bridged with a request in
\* flight.
C8_Witness ==
    \E c, d \in Conns :
      /\ c # d
      /\ tunnel[c].stage = "CLOSED"
      /\ tunnel[c].cause \in ErrorCauses
      /\ tunnel[d].stage = "BRIDGED"
      /\ Len(reqs[d]) >= 1
      /\ listening

\* The stage changes the orchestrator may make.
StageEdges ==
    {<<"NONE", "UPGRADING">>, <<"UPGRADING", "INIT">>,
     <<"INIT", "UPSTREAM_READY">>, <<"UPSTREAM_READY", "CLIENT_TLS_UP">>,
     <<"CLIENT_TLS_UP", "BRIDGED">>}
    \cup {<<s, "CLOSED">> : s \in {"UPGRADING", "INIT", "UPSTREAM_READY",
                                   "CLIENT_TLS_UP", "BRIDGED"}}

\* C9: the stage of a tunnel moves only along INIT -> UPSTREAM_READY ->
\* CLIENT_TLS_UP -> BRIDGED (or to CLOSED); client TLS is accepted only with
\* the upstream TLS session up and its leaf captured, the synchronizer and
\* its queue exist only after client TLS is up, and a client request is
\* served only when the synchronizer exists.
C9_StageOrder ==
    [][\A c \in Conns :
         /\ tunnel'[c].stage # tunnel[c].stage =>
              <<tunnel[c].stage, tunnel'[c].stage>> \in StageEdges
         /\ tunnel'[c].clientTls =>
              tunnel'[c].upstreamTls /\ tunnel'[c].leaf # <<"none", 0>>
         /\ sync'[c].pc # "none" => tunnel'[c].clientTls
         /\ reqs'[c] # <<>> => sync'[c].pc # "none"]_vars

\* A bridged tunnel served a request through its synchronizer.
C9_Witness ==
    /\ tunnel[Focus].stage = "BRIDGED"
    /\ \E k \in DOMAIN reqs[Focus] : reqs[Focus][k].status = "forwarded"

\* C10: a tunnel task exists only for a connection whose CONNECT was
\* answered 200, so the answer precedes the upstream attempt and does not
\* depend on it; a tunnel whose upstream connect failed is closed, never
\* accepted client TLS, and has no synchronizer, queue or ThirdWheel.
C10_ConnectAnsweredFirst ==
    \A c \in Conns :
      /\ tunnel[c].stage # "NONE" => conn[c].status = 200
      /\ tunnel[c].cause = "upstream" =>
           /\ tunnel[c].stage = "CLOSED"
           /\ conn[c].status = 200
           /\ ~tunnel[c].clientTls
           /\ sync[c].pc = "none"
           /\ ~thirdWheel[c].alive
           /\ reqs[c] = <<>>
           /\ upstream[c].st = "none"

\* The upstream connect of a tunnel failed after its CONNECT was answered.
C10_Witness ==
    /\ tunnel[Focus].cause = "upstream"
    /\ conn[Focus].status = 200
\* C11: a tunnel task (and with it an upgrade, an upstream session, a
\* synchronizer, a ThirdWheel) exists only on a connection whose last answered
\* request was a CONNECT with host and port, answered 200; a CONNECT missing
\* either, and every other request, is answered 400 and leaves the
\* connection without any of them.
C11_TunnelOnlyForConnect ==
    \A c \in Conns :
      LET r == conn[c].req
          good == r.method = "CONNECT" /\ r.host /\ r.port IN
      /\ tunnel[c].stage # "NONE" => good /\ conn[c].status = 200
      /\ (r # NoFrontReq /\ ~good) =>
           /\ conn[c].status = 400
           /\ conn[c].st = "open"
           /\ tunnel[c] = NoTunnel
           /\ upstream[c].st = "none"
           /\ sync[c] = NoSync
           /\ thirdWheel[c] = NoThirdWheel
           /\ queue[c] = <<>>

\* A CONNECT without a port was answered 400.
C11_Witness ==
    /\ conn[Focus].req = [method |-> "CONNECT", host |-> TRUE, port |-> FALSE]
    /\ conn[Focus].status = 400
\* The requests of c that were placed on the synchronizer queue.
EnqueuedKs(c) == {k \in DOMAIN reqs[c] : k \in QueuedKs(c) \/ reqs[c][k].deq >= 1}

\* C12: a response on the reply channel of request k is the upstream's
\* response to the request submitted for k, and so is the response the
\* client gets for k; results arrive on the reply channels in request order:
\* the synchronizer takes request k only after it sent the result of every
\* request enqueued before k.
C12_ResponsePairing ==
    \A c \in Conns : \A k \in DOMAIN reqs[c] :
      /\ reqs[c][k].reply = "Ok" => reqs[c][k].resp = k /\ k \in SentKs(c)
      /\ reqs[c][k].reply \notin {"Ok", "ErrTransport"} => reqs[c][k].resp = 0
      /\ reqs[c][k].status = "forwarded" =>
           reqs[c][k].reply = "Ok" /\ reqs[c][k].resp = k
      /\ reqs[c][k].deq >= 1 =>
           \A j \in EnqueuedKs(c) : j < k => reqs[c][j].sends >= 1

\* Three requests were forwarded one after the other, each answered with the
\* upstream's response to it.
C12_Witness ==
    /\ Len(sent[Focus]) = 3
    /\ \A k \in 1..3 :
         /\ k \in DOMAIN reqs[Focus]
         /\ reqs[Focus][k].status = "forwarded"
         /\ reqs[Focus][k].resp = k
\* What belongs to the upstream session of tunnel c.
SessionState(c) == <<upstream[c], queue[c], sync[c], sent[c]>>

\* C13, per state: a tunnel task opens at most one upstream connection, and
\* every request the tunnel submitted went over that connection, on which it
\* had been dequeued from the tunnel's own queue.
C13_OneSession ==
    \A c \in Conns :
      /\ upstream[c].opened <= 1
      /\ upstream[c].st # "none" <=> upstream[c].opened = 1
      /\ upstream[c].used \subseteq {1}
      /\ sent[c] # <<>> => upstream[c].used = {upstream[c].opened}
      /\ \A i \in DOMAIN sent[c] : sent[c][i].k \in DOMAIN reqs[c]

\* C13, per step: a released session is never opened again; a request
\* submitted on the session of c is the oldest entry of the queue of c, an
\* entry added to the queue of c is the newest request of tunnel c, and the
\* step touches the session, queue and synchronizer of no other tunnel.
C13_OwnSession ==
    \A c \in Conns :
      /\ upstream[c].st = "released" => upstream'[c].st = "released"
      /\ Len(sent'[c]) > Len(sent[c]) =>
           /\ queue[c] # <<>>
           /\ sent'[c][Len(sent'[c])].k = Head(queue[c]).k
           /\ queue'[c] = Tail(queue[c])
      /\ Len(queue'[c]) > Len(queue[c]) =>
           /\ Len(reqs'[c]) = Len(reqs[c]) + 1
           /\ queue'[c][Len(queue'[c])].k = Len(reqs'[c])
      /\ SessionState(c)' # SessionState(c) =>
           \A d \in Conns \ {c} : SessionState(d)' = SessionState(d)

C15_NoPathCase(r) == ~r.uri.scheme /\ r.uri.authority

\* C15: a request whose URI has no path-and-query is, in the step that
\* dequeues it, answered on its own reply channel with
\* RequestError("URI did not contain a path") (which arrives unless the
\* caller is gone); it is never submitted upstream and the synchronizer
\* never awaits a response for it, so it is back in recv() for the next
\* entry.
C15_NoPathRejected ==
    \A c \in Conns : \A k \in DOMAIN reqs[c] :
      C15_NoPathCase(reqs[c][k].req) =>
        /\ k \notin SentKs(c)
        /\ k \notin upstream[c].outstanding
        /\ ~(sync[c].pc = "await" /\ sync[c].cur = k)
        /\ reqs[c][k].deq >= 1 =>
             /\ reqs[c][k].sends = 1
             /\ \/ /\ reqs[c][k].reply = "ErrNoPath"
                   /\ ErrorOf(reqs[c][k].reply) =
                        [variant |-> "RequestError",
                         msg |-> "URI did not contain a path"]
                \/ reqs[c][k].reply = "none" /\ reqs[c][k].pc = "dropped"
        /\ reqs[c][k].reply \in {"none", "ErrNoPath"}

\* A request without path-and-query got its error, and a request queued
\* behind it was submitted upstream afterwards.
C15_Witness ==
    \E j, k \in DOMAIN reqs[Focus] :
      /\ j < k
      /\ C15_NoPathCase(reqs[Focus][j].req)
      /\ reqs[Focus][j].reply = "ErrNoPath"
      /\ k \in SentKs(Focus)
      /\ Len(sent[Focus]) = 1
\* C16, per state: a transport error on the reply channel of request k is
\* the HyperError of the response future of request k, which was submitted.
C16_OwnTransportError ==
    \A c \in Conns : \A k \in DOMAIN reqs[c] :
      reqs[c][k].reply = "ErrTransport" =>
        /\ reqs[c][k].resp = k
        /\ k \in SentKs(c)
        /\ reqs[c][k].sends = 1
        /\ ErrorOf(reqs[c][k].reply).variant = "HyperError"

\* C16, per step: when the synchronizer goes on after the response future
\* of request k resolved with a transport error, that error, wrapped in
\* HyperError, was sent on the reply channel of k (where it arrives unless
\* the caller is gone) and nothing changed for any other request.
C16_ErrorDelivered ==
    \A c \in Conns :
      (sync[c].pc = "await" /\ sync[c].fut = "hyper::Error"
         /\ sync'[c].pc # "await") =>
        LET k == sync[c].cur IN
        /\ reqs'[c][k].sends = reqs[c][k].sends + 1
        /\ reqs[c][k].pc = "wait" =>
             reqs'[c][k].reply = "ErrTransport" /\ reqs'[c][k].resp = k
        /\ \A j \in DOMAIN reqs[c] \ {k} : reqs'[c][j] = reqs[c][j]

\* C16: a transport error of a submitted request reaches the reply channel
\* of that request as it is: not swallowed, not given to another request,
\* not replaced by another error.
C16_TransportErrorUnchanged ==
    []C16_OwnTransportError /\ [][C16_ErrorDelivered]_vars

\* The first request failed with a transport error, which its caller got;
\* the request behind it got its response.
C16_Witness ==
    \E j, k \in DOMAIN reqs[Focus] :
      /\ j < k
      /\ reqs[Focus][j].reply = "ErrTransport"
      /\ reqs[Focus][j].resp = j
      /\ reqs[Focus][k].reply = "Ok"
\* The synchronizer task of c has ended, normally or not.
SyncGone(c) == sync[c].pc \in {"done", "aborted"}

\* C17: a call made when the queue's receiver is gone yields
\* ServerError("Failed to connect to server correctly") at once: the request
\* is neither queued nor dequeued nor submitted upstream, nothing is ever
\* placed on a queue without receiver, and no call future is left waiting
\* for a reply that cannot come.
C17_EnqueueFailureYieldsError ==
    \A c \in Conns : \A k \in DOMAIN reqs[c] :
      /\ reqs[c][k].call = "ErrConnect" =>
           /\ ErrorOf(reqs[c][k].call) =
                [variant |-> "ServerError",
                 msg |-> "Failed to connect to server correctly"]
           /\ SyncGone(c)
           /\ k \notin QueuedKs(c)
           /\ k \notin SentKs(c)
           /\ reqs[c][k].deq = 0
           /\ reqs[c][k].reply = "none"
      /\ SyncGone(c) =>
           /\ queue[c] = <<>>
           /\ reqs[c][k].pc = "wait" =>
                reqs[c][k].reply # "none" \/ reqs[c][k].senderDropped

\* The synchronizer task was ended, and a request made afterwards had its
\* call fail on the enqueue.
C17_Witness ==
    \E k \in DOMAIN reqs[Focus] :
      /\ sync[Focus].pc = "aborted"
      /\ reqs[Focus][k].call = "ErrConnect"
      /\ sent[Focus] = <<>>
\* C18, per state: a call yields ServerError("Failed to get response from
\* server") only for an enqueued request whose reply sender was dropped
\* without a value.
C18_ErrorOnlyWhenDropped ==
    \A c \in Conns : \A k \in DOMAIN reqs[c] :
      reqs[c][k].call = "ErrReply" =>
        /\ ErrorOf(reqs[c][k].call) =
             [variant |-> "ServerError",
              msg |-> "Failed to get response from server"]
        /\ reqs[c][k].senderDropped
        /\ reqs[c][k].reply = "none"
        /\ reqs[c][k].sends = 0

\* C18: under fair scheduling a call future waiting on a reply channel
\* whose sender was dropped without a value does not wait forever: the call
\* yields ServerError("Failed to get response from server"), unless the
\* server task ends first and drops the future.
C18_DroppedReplyYieldsError ==
    /\ []C18_ErrorOnlyWhenDropped
    /\ \A k \in 1..FairMaxReq :
         (/\ k \in DOMAIN reqs[Focus]
          /\ reqs[Focus][k].pc = "wait"
          /\ reqs[Focus][k].senderDropped) ~>
           (/\ k \in DOMAIN reqs[Focus]
            /\ \/ reqs[Focus][k].call = "ErrReply"
               \/ reqs[Focus][k].pc = "dropped")

\* The synchronizer task was ended while it awaited the response to a
\* submitted request; the call of that request yielded the error.
C18_Witness ==
    \E k \in DOMAIN reqs[Focus] :
      /\ k \in SentKs(Focus)
      /\ reqs[Focus][k].senderDropped
      /\ reqs[Focus][k].call = "ErrReply"
\* The requests of c for which the policy ran into an error: its call
\* yielded Err, or the request had no Host header.
PolicyErrorKs(c) ==
    {k \in DOMAIN reqs[c] :
       \/ reqs[c][k].call \notin {"none", "Ok"}
       \/ "host" \notin reqs[c][k].req.hdrs}

\* C19: a request for which the policy ran into an error is answered with
\* status 502, and the tunnel goes on serving.
C19_PolicyErrorAnswered502 ==
    \A c \in Conns : \A k \in PolicyErrorKs(c) :
      /\ reqs[c][k].status = "502"
      /\ reqs[c][k].pc # "panic"
\* The HAR entries sent to the sink so far: those still in the sink queue
\* and those the receiver task took.
SinkEntries ==
    {harQueue[i] : i \in DOMAIN harQueue} \cup {harEntries[i] : i \in DOMAIN harEntries}

\* The requests of c for which an entry was sent to the sink.
LoggedKs(c) == {e.k : e \in {x \in SinkEntries : x.conn = c}}

\* C20: an entry was sent to the sink for a request exactly when the policy
\* blocked it (and returned the synthesized response); such a request meets
\* the block condition, and a request that was enqueued for the upstream or
\* answered with the upstream's response has no entry. Every entry belongs
\* to a request.
C20_OnlyBlockedLogged ==
    /\ \A e \in SinkEntries : e.conn \in Conns /\ e.k \in DOMAIN reqs[e.conn]
    /\ \A c \in Conns : \A k \in DOMAIN reqs[c] :
         /\ k \in LoggedKs(c) <=> reqs[c][k].status = "blocked"
         /\ k \in LoggedKs(c) => C7_BlockCase(reqs[c][k].req)
         /\ (k \in EnqueuedKs(c) \/ reqs[c][k].status = "forwarded") =>
              k \notin LoggedKs(c)

\* The receiver task took the entry of a blocked request, while a request
\* to the same endpoint without the keyword was forwarded and left no entry.
C20_Witness ==
    \E j, k \in DOMAIN reqs[Focus] :
      /\ reqs[Focus][j].status = "blocked"
      /\ Len(harEntries) = 1 /\ harEntries[1].k = j
      /\ harQueue = <<>>
      /\ reqs[Focus][k].req = PostClean
      /\ reqs[Focus][k].status = "forwarded"
\* C21 as claimed: once a tunnel is closed and the sink is drained, every
\* request of it that was forwarded and answered has a HAR entry with its
\* URL and status 200.
C21_ForwardedRecorded ==
    \A c \in Conns : \A k \in DOMAIN reqs[c] :
      (/\ reqs[c][k].status = "forwarded"
       /\ tunnel[c].stage = "CLOSED"
       /\ harQueue = <<>>) =>
        \E i \in DOMAIN harEntries :
          /\ harEntries[i].conn = c /\ harEntries[i].k = k
          /\ harEntries[i].url = reqs[c][k].req.uri
          /\ harEntries[i].status = 200

\* C21 as amended: the client of a forwarded request gets the upstream's
\* response to that request, and neither the submission nor the answer
\* leaves a HAR entry: the sink, the entries vector and the file hold
\* nothing of a request that was submitted upstream.
C21_ForwardedDeliveredNotRecorded ==
    \A c \in Conns : \A k \in DOMAIN reqs[c] :
      /\ reqs[c][k].status = "forwarded" =>
           /\ reqs[c][k].call = "Ok"
           /\ reqs[c][k].reply = "Ok"
           /\ reqs[c][k].resp = k
           /\ k \in SentKs(c)
      /\ k \in SentKs(c) =>
           /\ k \notin LoggedKs(c)
           /\ \A d \in DOMAIN harFile : \A i \in DOMAIN harFile[d].entries :
                ~(harFile[d].entries[i].conn = c /\ harFile[d].entries[i].k = k)

\* A request with an absolute URI was forwarded and answered, the client
\* closed the tunnel, and nothing was ever sent to the sink.
C21_Witness ==
    \E k \in DOMAIN reqs[Focus] :
      /\ reqs[Focus][k].req = GetAbsolute
      /\ reqs[Focus][k].status = "forwarded"
      /\ tunnel[Focus].cause = "eof"
      /\ SinkEntries = {}
      /\ harFile = <<>>
\* How many entries of the sequence h belong to request k of tunnel c.
EntriesOf(h, c, k) ==
    Cardinality({i \in DOMAIN h : h[i].conn = c /\ h[i].k = k})

\* C22: no request ever has more than one entry sent to the sink; a request
\* the policy blocked (and answered with the synthesized response) has
\* exactly one; and the serverIPAddress of every entry is the text of the
\* peer address of the client connection the request came on.
C22_OneEntryWithClientAddress ==
    /\ \A c \in Conns : \A k \in DOMAIN reqs[c] :
         LET n == EntriesOf(harQueue, c, k) + EntriesOf(harEntries, c, k) IN
         /\ n <= 1
         /\ reqs[c][k].status = "blocked" => n = 1
    /\ \A e \in SinkEntries :
         /\ e.serverIPAddress = AddrToString(PeerAddr(e.conn))
         /\ e.serverIPAddress = AddrToString(conn[e.conn].ip)

\* Two requests of a tunnel were blocked; the entry of one is with the
\* receiver task, the entry of the other still in the sink queue.
C22_Witness ==
    \E j, k \in DOMAIN reqs[Focus] :
      /\ j # k
      /\ reqs[Focus][j].status = "blocked"
      /\ reqs[Focus][k].status = "blocked"
      /\ EntriesOf(harEntries, Focus, j) = 1
      /\ EntriesOf(harQueue, Focus, k) = 1
\* C23: the response synthesized for a blocked request has status 200 and
\* content-type text/event-stream, and its body, once read to its end, is
\* exactly three "data: {...}\n\n" frames, each carrying a JSON object,
\* followed by "data: [DONE]\n\n", with or without a conversation_id.
C23_ThreeObjectFramesThenDone ==
    (/\ util.fn = "create_response"
     /\ util.pc = "complete"
     /\ ContainsConfidential(ParseRequest(util.body).text))
    => /\ util.response = [status |-> 200, content_type |-> "text/event-stream"]
       /\ Len(util.read) = 4
       /\ \A i \in 1..3 : util.read[i].payload = "object"
       /\ util.read[4].text = "data: [DONE]\n\n"

\* C29: parse_request returns on every body: for a JSON body with a messages
\* key the serialization of messages[0].content.parts[0] (a string within
\* double quotes) wherever the body has that value, and the empty string for
\* a body without a messages key or that is not UTF-8 JSON.
C29_ParseRequestResult ==
    (util.fn = "parse_request" /\ util.pc # "call") =>
      LET b == util.body IN
      /\ ~util.out.panic
      /\ IF b.root = "object" /\ b.messages # "absent"
           THEN (b.messages = "array" /\ b.content = "parts"
                 /\ b.part0 # JsonAbsent)
                => util.out.text = (IF b.part0.t = "string"
                                      THEN "\"" \o b.part0.v \o "\""
                                      ELSE b.part0.v)
           ELSE util.out.text = ""

\* The Cookie headers of a request head.
CookieHeaders(parts) == SelectSeq(parts.headers, LAMBDA h : h.name = "cookie")

\* C30: copy_from_http_request_to_har maps every request to a HAR request
\* with the request's method and full URI, its headers in order with their
\* values, and one name/value cookie per Cookie header.
C30_RequestMappedToHar ==
    (util.fn = "copy_from_http_request_to_har" /\ util.pc # "call") =>
      LET parts == util.parts
          har == util.out.request
      IN
      /\ ~util.out.panic
      /\ har.method = parts.method
      /\ har.url = UriToString(parts.uri)
      /\ Len(har.headers) = Len(parts.headers)
      /\ \A i \in DOMAIN parts.headers :
            /\ har.headers[i].name = parts.headers[i].name
            /\ har.headers[i].value = ValueText(parts.headers[i].value.segs)
      /\ Len(har.cookies) = Len(CookieHeaders(parts))
      /\ \A i \in DOMAIN har.cookies :
            /\ har.cookies[i].name = CookieHeaders(parts)[i].value.segs[1].k
            /\ har.cookies[i].value = CookieHeaders(parts)[i].value.segs[1].v

\* C24: the address a tunnel's ThirdWheel (and so every clone of it) holds is
\* the one captured when the tunnel's client connection was accepted, from
\* the creation of the ThirdWheel on; it is the address of no other
\* connection, and every address the policy read for a request of the tunnel
\* is that address.
C24_ClientIpOfOwnTunnel ==
    /\ \A c \in Conns :
         thirdWheel[c] # NoThirdWheel =>
           /\ conn[c].st # "idle"
           /\ thirdWheel[c].client_ip = conn[c].ip
           /\ thirdWheel[c].client_ip = PeerAddr(c)
           /\ \A d \in Conns \ {c} :
                /\ thirdWheel[c].client_ip # PeerAddr(d)
                /\ thirdWheel[d] # NoThirdWheel =>
                     thirdWheel[d].client_ip # thirdWheel[c].client_ip
    /\ \A e \in SinkEntries :
         e.serverIPAddress.text = thirdWheel[e.conn].client_ip

\* Two tunnels are bridged at once, and the policy has read the client
\* address for a blocked request of the one accepted later.
C24_Witness ==
    \E c, d \in Conns :
      /\ c < d
      /\ thirdWheel[c].alive
      /\ thirdWheel[d].alive
      /\ \E e \in SinkEntries : e.conn = d

\* The requests of the entries of a sequence, in its order.
KsOf(h) == [i \in DOMAIN h |-> h[i].k]

\* The sink queue is within its capacity, and the entries the receiver task
\* took followed by the queued ones are the entries of the blocked requests,
\* each once and in the order of their sends.
C25_Bounded ==
    /\ Len(harQueue) <= HarCapacity
    /\ LET ks == KsOf(harEntries \o harQueue) IN
       /\ \A i \in DOMAIN ks : ks[i] = i
       /\ \A k \in DOMAIN reqs[Focus] :
            reqs[Focus][k].status = "blocked" <=> k \in DOMAIN ks

\* While the sink queue is full a waiting send stays suspended: only the
\* receiver task's taking an entry changes the queue.
C25_Suspended ==
    Len(harQueue) = HarCapacity =>
      /\ \A k \in DOMAIN reqs[Focus] :
           reqs[Focus][k].pc = "har" => reqs'[Focus][k].pc = "har"
      /\ harQueue' = harQueue \/ harQueue' = Tail(harQueue)

\* C25: the sink queue never holds more than 100 entries; a policy
\* invocation whose send finds it full is suspended until the receiver task
\* takes an entry; no entry is dropped or reordered.
C25_SinkBackPressure == []C25_Bounded /\ [][C25_Suspended]_vars

\* The sink queue is full and the policy invocation of one more blocked
\* request is suspended in its send.
C25_Witness ==
    /\ Len(harQueue) = HarCapacity
    /\ \E k \in DOMAIN reqs[Focus] : reqs[Focus][k].pc = "har"

\* The CA cannot be loaded in main's environment.
C26_LoadFails == main.env.cert_file # "ok" \/ main.env.key_file # "ok"

\* When the CA cannot be loaded, main is at its first statement or the
\* process has exited with a non-zero status, and the listening socket is not
\* bound and has accepted nothing; whenever the socket is bound, the CA was
\* loaded.
C26_NeverBound ==
    /\ C26_LoadFails =>
         /\ main.pc \in {"load_ca", "exited"}
         /\ main.pc = "exited" => main.exit # 0
         /\ ~listening
         /\ \A c \in Conns : conn[c].st = "idle"
    /\ listening => main.pc \in {"create_file", "join"}

\* C26: if loading the CA fails at start-up the process terminates with a
\* non-zero exit status and no listening port is ever bound; the load
\* precedes the bind.
C26_CaFailureExitsUnbound ==
    /\ []C26_NeverBound
    /\ C26_LoadFails ~> (main.pc = "exited" /\ main.exit # 0 /\ ~listening)

\* The key file's passphrase is not main's: the process has exited with
\* status 1 and nothing was bound.
C26_Witness ==
    /\ main.env.key_file = "other_passphrase"
    /\ main.env.cert_file = "ok"
    /\ main.pc = "exited"
    /\ main.exit = 1
    /\ ~listening

\* A task of connection c still runs: its tunnel task, its synchronizer, or
\* the driver of its upstream connection.
C27_Running(c) ==
    \/ tunnel[c].stage \notin {"NONE", "CLOSED"}
    \/ sync[c].pc \notin {"none", "done", "aborted"}
    \/ upstream[c].st = "open"

\* C27: once the listening task is dropped, no tunnel task, synchronizer
\* task or upstream connection driver of its connections keeps running.
C27_DropCancelsChildren ==
    (main.pc = "join" /\ ~listening) => \A c \in Conns : ~C27_Running(c)

\* C28: the leaf a tunnel presents to its client is spoofed from the leaf
\* that tunnel captured from its upstream and is signed by the configured
\* CA; it names the requested host whenever the upstream leaf did; and its
\* validity window lies within the CA's.
C28_SpoofedLeaf ==
    \A c \in Conns :
      tunnel[c].clientTls =>
        LET p == tunnel[c].presented
            u == TargetCert(c)
        IN
        /\ tunnel[c].leaf = u.subject
        /\ p.subject = u.subject
        /\ p.issuer = ConfiguredCa.name
        /\ <<"host", c>> \in u.sans => <<"host", c>> \in p.sans
        /\ p.not_before >= ConfiguredCa.not_before
        /\ p.not_after <= ConfiguredCa.not_after


\* The policy futures of c still in flight: each holds the ThirdWheel it was
\* given, and a call future holds its clone of the queue's sender.
InFlightKs(c) == {k \in DOMAIN reqs[c] : reqs[c][k].pc \in {"har", "wait"}}

\* C31, per state: a synchronizer that has left its loop has an empty queue
\* all of whose senders are gone: no ThirdWheel of the tunnel and no policy
\* future in flight is left.
C31_ExitedOnlyClosed ==
    \A c \in Conns :
      sync[c].pc = "done" =>
        /\ queue[c] = <<>>
        /\ ~thirdWheel[c].alive
        /\ InFlightKs(c) = {}

\* C31, per step: the synchronizer leaves its loop only from recv(), with
\* the queue empty and every sender dropped, and not in the step that ends
\* the server task; the step that ends the server task leaves the
\* synchronizer and its queue as they are.
C31_ExitStep ==
    \A c \in Conns :
      /\ (sync[c].pc # "done" /\ sync'[c].pc = "done") =>
           /\ sync[c].pc = "recv"
           /\ queue[c] = <<>>
           /\ ~thirdWheel[c].alive
           /\ InFlightKs(c) = {}
           /\ tunnel'[c] = tunnel[c]
      /\ (tunnel[c].stage = "BRIDGED" /\ tunnel'[c].stage = "CLOSED") =>
           /\ sync'[c] = sync[c]
           /\ queue'[c] = queue[c]

\* C31: the synchronizer's lifetime is decoupled from the server task's:
\* only the closure of its input queue ends it.
C31_SyncOutlivesServer == []C31_ExitedOnlyClosed /\ [][C31_ExitStep]_vars

\* The server task has ended while the synchronizer awaits a response with
\* another request still queued: the synchronizer runs on.
C31_Witness ==
    /\ tunnel[Focus].stage = "CLOSED"
    /\ ~thirdWheel[Focus].alive
    /\ sync[Focus].pc = "await"
    /\ queue[Focus] # <<>>

\* C32, per step: when the synchronizer calls send on the reply channel of a
\* request whose receiver is gone (its call future is no longer waiting),
\* the task is in recv() afterwards, neither ended nor panicked; the failed
\* delivery is logged, nothing arrives on the channel, and the other queued
\* requests stay queued.
C32_FailedDeliveryStep ==
    \A c \in Conns : \A k \in DOMAIN reqs[c] :
      (reqs'[c][k].sends = reqs[c][k].sends + 1 /\ reqs[c][k].pc # "wait") =>
        /\ sync'[c].pc = "recv"
        /\ reqs'[c][k].logged = reqs[c][k].logged + 1
        /\ reqs'[c][k].reply = reqs[c][k].reply
        /\ \A i \in DOMAIN queue[c] :
             queue[c][i].k # k => \E j \in DOMAIN queue'[c] : queue'[c][j] = queue[c][i]

\* C32: a delivery to a dropped receiver is logged and the synchronizer
\* goes on; under fair scheduling a request queued behind it is handled as
\* any other: submitted upstream with its relativized URI when the URI has a
\* path, and its result sent on its reply channel.
C32_ContinuesAfterFailedDelivery ==
    /\ [][C32_FailedDeliveryStep]_vars
    /\ \A j \in 1..FairMaxReq :
         (/\ j \in QueuedKs(Focus)
          /\ \E k \in DOMAIN reqs[Focus] : reqs[Focus][k].logged >= 1) ~>
           (/\ j \in DOMAIN reqs[Focus]
            /\ reqs[Focus][j].sends >= 1
            /\ LET r == reqs[Focus][j].req
                   rel == Relativize(r.uri)
               IN rel.ok =>
                    \E i \in DOMAIN sent[Focus] :
                      sent[Focus][i] = Pending(j, Outgoing(r, rel.uri)))

\* The delivery for one request failed and was logged, and the request
\* queued behind it was then submitted upstream and its result sent.
C32_Witness ==
    \E k, j \in DOMAIN reqs[Focus] :
      /\ k < j
      /\ reqs[Focus][k].logged = 1 /\ reqs[Focus][k].reply = "none"
      /\ j \in SentKs(Focus)
      /\ reqs[Focus][j].sends = 1
      /\ sync[Focus].pc # "aborted"

\* C33: where no task is ended from outside and the synchronizer does not
\* panic, no call yields a ServerError: neither "Failed to connect to server
\* correctly" nor "Failed to get response from server". No reply sender is
\* dropped without a value, and a synchronizer that left its loop leaves no
\* call behind.
C33_CallErrorsUnreachable ==
    \A c \in Conns :
      /\ \A k \in DOMAIN reqs[c] :
           /\ reqs[c][k].call \notin {"ErrConnect", "ErrReply"}
           /\ ErrorOf(reqs[c][k].call).variant # "ServerError"
           /\ ~reqs[c][k].senderDropped
      /\ sync[c].pc = "done" =>
           \A k \in DOMAIN reqs[c] : reqs[c][k].pc # "wait"

\* One call yielded the upstream's response and a later one yielded an
\* error, which is not a ServerError.
C33_Witness ==
    \E j, k \in DOMAIN reqs[Focus] :
      /\ j < k
      /\ reqs[Focus][j].call = "Ok"
      /\ reqs[Focus][k].call \in {"ErrNoPath", "ErrInvalid", "ErrTransport"}

\* C34, per step, for a request k of c:
\*   an entry leaves the queue only by being dequeued;
\*   a request dequeued after its call future was dropped is submitted
\*   upstream like any other, and the synchronizer awaits its response;
\*   while the synchronizer awaits the response to a request whose receiver
\*   is gone, its only step is the resolution of the response future, and
\*   once that is resolved, the send on the reply channel;
\*   the drop of the call future of the request in flight changes neither
\*   the synchronizer nor the upstream session.
C34_Step ==
    \A c \in Conns : \A k \in DOMAIN reqs[c] :
      LET r == reqs[c][k].req
          rel == Relativize(r.uri)
          gone == reqs[c][k].pc # "wait"
          awaited == sync[c].pc = "await" /\ sync[c].cur = k
      IN
      /\ (k \in QueuedKs(c) /\ k \notin QueuedKs(c)') =>
           reqs'[c][k].deq = reqs[c][k].deq + 1
      /\ (reqs'[c][k].deq = reqs[c][k].deq + 1 /\ gone /\ rel.ok) =>
           /\ sent'[c] = Append(sent[c], Pending(k, Outgoing(r, rel.uri)))
           /\ sync'[c] = Awaiting(k)
           /\ k \in upstream'[c].outstanding
      /\ (awaited /\ gone /\ sync'[c] # sync[c]) =>
           IF sync[c].fut = "none"
             THEN sync'[c].pc = "await" /\ sync'[c].cur = k /\ sync'[c].fut # "none"
             ELSE reqs'[c][k].sends = reqs[c][k].sends + 1
      /\ (awaited /\ ~gone /\ reqs'[c][k].pc # "wait") =>
           /\ sync'[c] = sync[c]
           /\ upstream'[c] = upstream[c]
           /\ sent'[c] = sent[c]
           /\ queue'[c] = queue[c]

\* C34: the synchronizer never skips or cancels a request because its reply
\* receiver is gone; under fair scheduling a queued request whose call future
\* was dropped, and whose URI has a path, is submitted upstream.
C34_DroppedReceiverStillForwarded ==
    /\ [][C34_Step]_vars
    /\ \A k \in 1..FairMaxReq :
         (/\ k \in QueuedKs(Focus)
          /\ reqs[Focus][k].pc = "dropped"
          /\ Relativize(reqs[Focus][k].req.uri).ok) ~> (k \in SentKs(Focus))

\* The server task ended while the first request was in flight and the second
\* queued: the first delivery failed, and the second request was submitted
\* upstream afterwards and is awaited.
C34_Witness ==
    \E j, k \in DOMAIN reqs[Focus] :
      /\ j < k
      /\ reqs[Focus][j].logged = 1 /\ j \in SentKs(Focus)
      /\ reqs[Focus][k].pc = "dropped"
      /\ k \in SentKs(Focus)
      /\ sync[Focus] = Awaiting(k)

\* The block predicate matches request r: it is a POST to the chat endpoint
\* whose parsed prompt contains the keyword.
C35_Matched(r) ==
    /\ "host" \in r.hdrs /\ r.host = "chatgpt.com"
    /\ UriPath(r.uri) = "/backend-api/conversation"
    /\ r.method = "POST"
    /\ ~ParseRequest(r.body).panic
    /\ ContainsConfidential(ParseRequest(r.body).text)

\* C35: a request the block predicate matched is never enqueued for
\* upstream, dequeued, submitted or answered as forwarded; its policy future
\* waits for the sink, has returned the synthesized answer (with or without
\* a body), has panicked or was dropped.
C35_FailClosed ==
    \A c \in Conns : \A k \in DOMAIN reqs[c] :
      C35_Matched(reqs[c][k].req) =>
        /\ k \notin QueuedKs(c)
        /\ k \notin SentKs(c)
        /\ k \notin upstream[c].outstanding
        /\ reqs[c][k].deq = 0
        /\ reqs[c][k].pc \in {"har", "done", "panic", "dropped"}
        /\ reqs[c][k].status \in {"none", "blocked"}
        /\ reqs[c][k].call = "none"

\* A matched request without an id was answered with an empty body, the
\* receiver task then panicked, and the send for the next matched request
\* failed.
C35_Witness ==
    \E j, k \in DOMAIN reqs[Focus] :
      /\ j < k
      /\ C35_Matched(reqs[Focus][j].req)
      /\ reqs[Focus][j].status = "blocked" /\ reqs[Focus][j].answer = <<>>
      /\ C35_Matched(reqs[Focus][k].req)
      /\ harReceiver = "dropped"
      /\ reqs[Focus][k].pc = "panic"
      /\ sent[Focus] = <<>>

\* What the policy decided for request k of tunnel c: "forward" once the
\* request was placed on the synchronizer queue, "block" when its policy
\* future went for the sink instead, "none" when the policy panicked.
C36_Decision(c, k) ==
    IF k \in QueuedKs(c) \/ reqs[c][k].deq >= 1 THEN "forward"
    ELSE IF reqs[c][k].pc \in {"har", "done", "dropped"} THEN "block"
    ELSE "none"

\* The four fields of a request the decision may depend on.
C36_Fields(r) == <<"host" \in r.hdrs, r.host, UriPath(r.uri), r.method, r.body>>

\* C36: two requests with the same Host header, path, method and body get
\* the same decision whatever the targets of their tunnels; and a POST to
\* the chat endpoint whose Host header is not exactly chatgpt.com is
\* forwarded, confidential prompt or not, also on the tunnel to chatgpt.com.
C36_DecisionIgnoresTarget ==
    /\ \A c, d \in Conns : \A j \in DOMAIN reqs[c], k \in DOMAIN reqs[d] :
         C36_Fields(reqs[c][j].req) = C36_Fields(reqs[d][k].req) =>
           C36_Decision(c, j) = C36_Decision(d, k)
    /\ \A c \in Conns : \A k \in DOMAIN reqs[c] :
         LET r == reqs[c][k].req IN
         (/\ "host" \in r.hdrs /\ r.host # "chatgpt.com"
          /\ r.method = "POST"
          /\ UriPath(r.uri) = "/backend-api/conversation") =>
           C36_Decision(c, k) = "forward"

\* On the tunnel to chatgpt.com the confidential prompt with the other Host
\* header was submitted upstream, and on the tunnel to example.com the same
\* prompt with Host chatgpt.com was blocked.
C36_Witness ==
    /\ TargetHost(Focus) = "chatgpt.com" /\ TargetHost(Other) # "chatgpt.com"
    /\ \E j \in DOMAIN reqs[Focus] :
         /\ reqs[Focus][j].req = PostConfidentialOtherHost
         /\ j \in SentKs(Focus)
    /\ \E k \in DOMAIN reqs[Other] :
         /\ reqs[Other][k].req = PostConfidential
         /\ reqs[Other][k].status = "blocked"

\* C37, per state: a blocked request was answered only if the sink queue
\* accepted its HAR entry.
C37_AnsweredOnlyLogged ==
    \A c \in Conns : \A k \in DOMAIN reqs[c] :
      reqs[c][k].status = "blocked" =>
        \E e \in SinkEntries : e.conn = c /\ e.k = k

\* C37, per step: while the sink queue is full and no entry is taken from
\* it, no blocked request of any tunnel is answered: its policy future stays
\* in its send (or is dropped with its server task).
C37_PendingWhileFull ==
    (Len(harQueue) = HarCapacity /\ Len(harQueue') >= HarCapacity) =>
      \A c \in Conns : \A k \in DOMAIN reqs[c] :
        reqs[c][k].pc = "har" =>
          /\ reqs'[c][k].pc \in {"har", "dropped"}
          /\ reqs'[c][k].status = "none"

\* C37: the answer to a blocked request follows the acceptance of its HAR
\* entry; with the sink queue full and the receiver task not taking entries,
\* blocked requests of every tunnel stay pending, while a request that is
\* not blocked is still submitted upstream and its result sent.
C37_BlockedWaitForSink ==
    /\ []C37_AnsweredOnlyLogged
    /\ [][C37_PendingWhileFull]_vars
    /\ \A k \in 1..StallMaxReq :
         (Len(harQueue) = HarCapacity /\ k \in QueuedKs(Other)) ~>
           (/\ Len(harQueue) = HarCapacity
            /\ k \in SentKs(Other)
            /\ reqs[Other][k].sends >= 1)

\* The sink queue is full; a blocked request is pending on each tunnel, and
\* the second tunnel's request before it was forwarded and answered.
C37_Witness ==
    /\ Len(harQueue) = HarCapacity
    /\ \E k \in DOMAIN reqs[Focus] : reqs[Focus][k].pc = "har"
    /\ Len(reqs[Other]) = 2
    /\ reqs[Other][1].status = "forwarded"
    /\ reqs[Other][2].pc = "har"
    /\ \A e \in SinkEntries : e.conn = Focus

\* C38, per state: after n entries the file holds, for every m up to n, the
\* document with the first m entries received followed by ",\n", in this
\* order and nothing else.
C38_FileOfDocuments ==
    /\ Len(harFile) = 2 * Len(harEntries)
    /\ \A m \in DOMAIN harEntries :
         /\ harFile[2 * m - 1] = HarDocument(SubSeq(harEntries, 1, m))
         /\ harFile[2 * m] = Separator

\* C38, per step: the entries vector and the file change only by the
\* receiver task taking the oldest entry of the sink queue; what the file
\* held before stays as it was.
C38_AppendOnly ==
    (harEntries' # harEntries \/ harFile' # harFile) =>
      /\ harQueue # <<>>
      /\ harQueue' = Tail(harQueue)
      /\ harEntries' = Append(harEntries, Head(harQueue))
      /\ Len(harFile') = Len(harFile) + 2
      /\ SubSeq(harFile', 1, Len(harFile)) = harFile

\* C38: the receiver task handles entries in receive order and appends one
\* cumulative document and ",\n" per entry, never touching earlier writes.
C38_CumulativeAppend == []C38_FileOfDocuments /\ [][C38_AppendOnly]_vars

\* Three entries were received: the file holds three documents, of one, two
\* and three entries.
C38_Witness ==
    /\ Len(harEntries) = 3
    /\ Len(harFile) = 6
    /\ Len(harFile[1].entries) = 1
    /\ Len(harFile[5].entries) = 3
    /\ KsOf(harEntries) = <<1, 2, 3>>

\* The steps of run_mitm_on_connection that can fail before the tunnel is
\* bridged, as the causes the model records.
C39_EarlyFailures == {"upstream", "spoof", "client_tls", "handshake"}

\* C39: a tunnel closed by a failure before BRIDGED has no connection
\* driver, no synchronizer, no queue and no ThirdWheel, served no request,
\* and holds no upstream stream: none was opened when the connect failed,
\* and the one opened was released otherwise.
C39_EarlyFailureLeavesNothing ==
    \A c \in Conns :
      (tunnel[c].stage = "CLOSED" /\ tunnel[c].cause \in C39_EarlyFailures) =>
        /\ ~upstream[c].driver
        /\ sync[c].pc = "none"
        /\ queue[c] = <<>> /\ sent[c] = <<>> /\ reqs[c] = <<>>
        /\ ~thirdWheel[c].alive
        /\ upstream[c].outstanding = {}
        /\ IF tunnel[c].cause = "upstream"
             THEN upstream[c].st = "none" /\ upstream[c].opened = 0
             ELSE upstream[c].st = "released" /\ upstream[c].opened = 1

\* The upstream HTTP handshake failed after both TLS sessions were up: the
\* tunnel is closed and its upstream stream released.
C39_Witness ==
    /\ tunnel[Focus].stage = "CLOSED"
    /\ tunnel[Focus].cause = "handshake"
    /\ tunnel[Focus].upstreamTls /\ tunnel[Focus].clientTls
    /\ upstream[Focus].st = "released"
    /\ sync[Focus].pc = "none"

\* C40: a request submitted to the upstream sender differs from the request
\* the synchronizer dequeued in its URI, which is the path and query of the
\* original alone, and in the proxy-connection header, which is gone; its
\* method, its other headers, its Host value and its body are the original's.
\* A dequeued request that fails the URI check is not submitted: its error
\* is sent on its reply channel and nothing else happens to it.
C40_OnlyUriAndProxyConnection ==
    \A c \in Conns :
      /\ \A i \in DOMAIN sent[c] :
           LET out == sent[c][i].req
               orig == reqs[c][sent[c][i].k].req
               pq == PathAndQuery(orig.uri)
           IN /\ pq # NoPath
              /\ out.uri = MkUri(FALSE, FALSE, pq.path, pq.query)
              /\ out.hdrs = orig.hdrs \ {"proxy-connection"}
              /\ out.method = orig.method
              /\ out.host = orig.host
              /\ out.body = orig.body
      /\ \A k \in DOMAIN reqs[c] :
           (reqs[c][k].deq >= 1 /\ ~Relativize(reqs[c][k].req.uri).ok) =>
             /\ k \notin SentKs(c)
             /\ k \notin upstream[c].outstanding
             /\ reqs[c][k].sends = 1
             /\ reqs[c][k].reply \in {"none", "ErrNoPath", "ErrInvalid"}

\* A POST with a body and a GET with an absolute URI and a proxy-connection
\* header were submitted, and a request with an authority-form URI was
\* dequeued and rejected.
C40_Witness ==
    \E i, j \in DOMAIN sent[Focus] : \E k \in DOMAIN reqs[Focus] :
      /\ reqs[Focus][sent[Focus][i].k].req = PostClean
      /\ reqs[Focus][sent[Focus][j].k].req = GetAbsolute
      /\ reqs[Focus][k].req = AuthorityForm
      /\ reqs[Focus][k].deq = 1
      /\ reqs[Focus][k].reply = "ErrNoPath"
====
